---- MODULE Spec2Model ----
(***************************************************************************)
(* Order processing coordinators of inverted-mocking-demo.                 *)
(*                                                                         *)
(*   after/orderProcessor.ts  processOrder  critical / optional effects    *)
(*   pure/orderProcessing.ts  processOrder  every output effect critical   *)
(*                                                                         *)
(* One behaviour is one call processOrder(orderId)(effects).  The effects  *)
(* are the environment: every invoked effect is a pending promise that the *)
(* environment may resolve, reject, or leave pending for ever.  The        *)
(* coordinator moves only at its suspension points (await), as the event   *)
(* loop does.                                                              *)
(*                                                                         *)
(* Further specifications of the same module:                              *)
(*   RetrySpec     one activity invocation under the retry policy of its   *)
(*                 proxy (temporal/workflows)                              *)
(*   WorkflowSpec  processOrderWorkflow: the pure coordinator over the     *)
(*                 proxied activities, with cancellation                   *)
(*   FinaliseSpec  finaliseOrder of the pure coordinator, called on its    *)
(*                 own inputs                                              *)
(*   ComputeSpec   the functions of businessLogic.ts, called on values     *)
(*   ClientSpec    the HTTP API and the Temporal client behind it          *)
(*                                                                         *)
(* Amounts are exact numbers in hundredths (subtotal 100 is 10000), so     *)
(* that subtotal * (discountPercent / 100) stays an integer.               *)
(***************************************************************************)
EXTENDS Integers, Sequences, FiniteSets, TLC

\* ------------------------------------------------------------------ bounds

\* longest list of line requests of a fetched order
MaxItems == 2

\* the stock every product has before the first repository operation
InitialStock == 5

\* ------------------------------------------------------------ input domain

Null == [kind |-> "null"]

OrderIds == {"order-123", "missing-order"}

ProductIds == {"prod-1", "prod-2"}

Tiers == {"standard", "premium", "vip"}

\* the unit price and the quantity the order lines of the fixtures carry for each product
PriceOf(productId) == IF productId = "prod-1" THEN 25 ELSE 50

QuantityOf(productId) == IF productId = "prod-1" THEN 2 ELSE 1

ProductNameOf(productId) == IF productId = "prod-1" THEN "Widget" ELSE "Gadget"

OrderItems ==
  { [productId |-> p, quantity |-> QuantityOf(p), pricePerUnit |-> PriceOf(p)] :
      p \in ProductIds }

SeqsUpTo(S, n) == UNION { [1..k -> S] : k \in 0..n }

\* the orders orders.getById may resolve to
OrdersOf(id) ==
  { [kind |-> "order", id |-> id, customerId |-> "cust-456", items |-> its] :
      its \in SeqsUpTo(OrderItems, MaxItems) }

\* the customers customers.getById may resolve to
CustomersOf(id) ==
  { [kind |-> "customer", id |-> id, email |-> "test@example.com", tier |-> t] :
      t \in Tiers }

\* the product maps products.getByIds may resolve to
ProductMaps ==
  { [p \in S |-> [id |-> p, name |-> ProductNameOf(p)]] : S \in SUBSET ProductIds }

\* the rule lists pricing.getDiscountRules may resolve to
RuleLists ==
  { <<>>,
    <<[tier |-> "premium", minPurchase |-> 50, discountPercent |-> 10]>>,
    <<[tier |-> "premium", minPurchase |-> 50, discountPercent |-> 10],
      [tier |-> "premium", minPurchase |-> 100, discountPercent |-> 20]>> }

\* the Error a rejecting effect rejects with
ErrorMessage(effect) ==
  CASE effect = "products.updateInventory" -> "Inventory service unavailable"
    [] effect = "customers.updateTotalPurchases" -> "Customer service down"
    [] effect = "notifications.sendEmail" -> "Email service down"
    [] effect = "cache.set" -> "Cache unavailable"
    [] effect = "pricing.getDiscountRules" -> "Pricing service unavailable"
    [] OTHER -> "Service unavailable"

\* ---------------------------------------------------------- business logic

RECURSIVE calculateLineItemsFrom(_, _, _)
calculateLineItemsFrom(items, products, i) ==
  IF i > Len(items) THEN [items |-> <<>>, missingProductIds |-> <<>>]
  ELSE LET orderItem == items[i]
           rest == calculateLineItemsFrom(items, products, i + 1)
       IN IF orderItem.productId \notin DOMAIN products
          THEN [rest EXCEPT !.missingProductIds = <<orderItem.productId>> \o @]
          ELSE [rest EXCEPT !.items =
                  << [productId |-> orderItem.productId,
                      productName |-> products[orderItem.productId].name,
                      quantity |-> orderItem.quantity,
                      pricePerUnit |-> orderItem.pricePerUnit,
                      lineTotal |-> orderItem.quantity * orderItem.pricePerUnit] >> \o @]

\* mutant: a line whose product is missing is dropped without a trace
calculateLineItems_dropsMissing(order, products) ==
  [calculateLineItemsFrom(order.items, products, 1) EXCEPT !.missingProductIds = <<>>]

calculateLineItems(order, products) == calculateLineItemsFrom(order.items, products, 1)

RECURSIVE calculateSubtotal(_)
calculateSubtotal(lineItems) ==
  IF lineItems = <<>> THEN 0
  ELSE lineItems[1].lineTotal + calculateSubtotal(Tail(lineItems))

\* Array.prototype.find over the indices that satisfy its predicate: the first one
\* (a non-empty set of indices)
First(hits) == CHOOSE i \in hits : \A j \in hits : i <= j

\* mutant: the last matching rule wins
findApplicableDiscount_last(rules, customerTier, subtotal) ==
  LET ofTier == SelectSeq(rules, LAMBDA rule : rule.tier = customerTier)
      hits == {i \in 1..Len(ofTier) : subtotal >= ofTier[i].minPurchase}
  IN IF hits = {} THEN Null ELSE ofTier[CHOOSE i \in hits : \A j \in hits : j <= i]

findApplicableDiscount(rules, customerTier, subtotal) ==
  LET ofTier == SelectSeq(rules, LAMBDA rule : rule.tier = customerTier)
      hits == {i \in 1..Len(ofTier) : subtotal >= ofTier[i].minPurchase}
  IN IF hits = {} THEN Null ELSE ofTier[First(hits)]

\* in hundredths: subtotal * (discountPercent / 100) * 100
calculateDiscount(subtotal, rule) ==
  IF rule = Null THEN 0 ELSE subtotal * rule.discountPercent

\* mutant: the premium points are rounded up
calculateLoyaltyPoints_ceil(total, customerTier) ==
  LET basePoints == total \div 1000
  IN CASE customerTier = "vip" -> basePoints * 2
       [] customerTier = "premium" -> (basePoints * 3 + 1) \div 2
       [] OTHER -> basePoints

\* mutant: premium earns three times the base points
calculateLoyaltyPoints_tripled(total, customerTier) ==
  LET basePoints == total \div 1000
  IN CASE customerTier = "vip" -> basePoints * 2
       [] customerTier = "premium" -> basePoints * 3
       [] OTHER -> basePoints

\* total in hundredths
calculateLoyaltyPoints(total, customerTier) ==
  LET basePoints == total \div 1000
  IN CASE customerTier = "vip" -> basePoints * 2
       [] customerTier = "premium" -> (basePoints * 3) \div 2
       [] OTHER -> basePoints

toItemsSummary(lineItems) ==
  [i \in 1..Len(lineItems) |->
     [productId |-> lineItems[i].productId,
      productName |-> lineItems[i].productName,
      quantity |-> lineItems[i].quantity,
      lineTotal |-> lineItems[i].lineTotal]]

toProcessedOrder(order, customer, lineItems, discountRule) ==
  LET subtotal == calculateSubtotal(lineItems)
      discount == calculateDiscount(subtotal, discountRule)
      total == subtotal * 100 - discount
  IN [orderId |-> order.id,
      customerId |-> customer.id,
      subtotal |-> subtotal * 100,
      discount |-> discount,
      total |-> total,
      loyaltyPointsEarned |-> calculateLoyaltyPoints(total, customer.tier),
      itemsSummary |-> toItemsSummary(lineItems)]

\* mutant: the delta carries the quantity, not its negation
calculateInventoryUpdates_positive(lineItems) ==
  [i \in 1..Len(lineItems) |->
     [productId |-> lineItems[i].productId,
      quantityChange |-> lineItems[i].quantity]]

calculateInventoryUpdates(lineItems) ==
  [i \in 1..Len(lineItems) |->
     [productId |-> lineItems[i].productId,
      quantityChange |-> 0 - lineItems[i].quantity]]

buildMissingProductAlerts(orderId, missingProductIds) ==
  [i \in 1..Len(missingProductIds) |->
     [type |-> "missing_product",
      productId |-> missingProductIds[i],
      orderId |-> orderId]]

\* to and subject; the body (the amounts, toFixed(2)) is not read by any effect here
buildConfirmationEmail(customer, processed) ==
  [to |-> customer.email,
   subject |-> "Order " \o processed.orderId \o " Confirmed"]

\* key and ttl; the value is JSON.stringify(processed), left out
buildCacheEntry(processed) ==
  [key |-> "processed-order:" \o processed.orderId, ttlSeconds |-> 3600]

buildAnalyticsEvent(processed, customerTier) ==
  [event |-> "order_processed",
   orderId |-> processed.orderId,
   total |-> processed.total,
   customerTier |-> customerTier]

\* ------------------------------------------------------------------ state

ReadEffects ==
  {"orders.getById", "customers.getById", "products.getByIds", "pricing.getDiscountRules"}

CriticalEffects == <<"products.updateInventory", "customers.updateTotalPurchases">>

OptionalEffects ==
  {"cache.set", "notifications.sendEmail", "analytics.trackEvent", "monitoring.sendAlerts"}

WriteEffects == {CriticalEffects[1], CriticalEffects[2]} \cup OptionalEffects

Effects == ReadEffects \cup WriteEffects

Coordinators == {"after", "pure"}

VARIABLES
  coordinator,      \* which processOrder runs: after/orderProcessor or pure/orderProcessing
  pc,               \* the suspension point processOrder is at
  orderId,          \* the argument of processOrder
  eff,              \* per effect: "idle" (never invoked), "pending", "ok", "failed"
  value,            \* per effect: what its promise resolved with
  calls,            \* the effect invocations so far, in order, with their arguments
  optionalEffects,  \* the fire-and-forget effects processOrder started, in order
  result,           \* what the promise returned by processOrder settled with
  obs,              \* the .then observer of the optional effects: "none", "waiting", "logged"
  sink              \* the console.warn lines written so far

vars ==
  <<coordinator, pc, orderId, eff, value, calls, optionalEffects, result, obs, sink>>

\* one activity invocation of the workflow, under the retry policy of its proxy
VARIABLES
  activity,         \* the activity invoked through proxyActivities
  phase,            \* "none", "running", "backoff", "completed", "failed", "cancelled"
  attempt,          \* the number of the attempt in progress, or of the last one
  currentInterval,  \* the backoff interval the next sleep is taken from, in ms
  sleeps,           \* the backoff sleeps so far, in ms
  lastFailure       \* the failure the invocation would surface

retryVars == <<activity, phase, attempt, currentInterval, sleeps, lastFailure>>

\* the workflow that runs processOrder
VARIABLES
  cancelRequested   \* handle.cancel() has reached the workflow

\* the Temporal client and the HTTP API in front of it
VARIABLES
  executions,       \* per workflow id: the closing status of each run started, in order
  responses,        \* the HTTP responses of POST /api/orders/:orderId/process, in order
  reported          \* the last getOrderProcessingStatus call: what describe() gave, what it settled with

clientVars == <<executions, responses, reported>>

\* the computation stage, called as plain functions on values
VARIABLES
  given,            \* the arguments the function under consideration is called with
  returned,         \* each call on these arguments: its number and what it returned
  invocations       \* the calls of the business logic so far, on any arguments

computeVars == <<given, returned, invocations>>

\* the production EffectsFactory: its private fields and what was done with it
VARIABLES
  _pool,            \* the pg Pool handle, or Null
  _redisClient,     \* the Redis client handle, or Null
  _services,        \* per getter: the service instance it caches, or Null
  initializing,     \* where initialize() is suspended: "no", "pool.connect", "redis.connect"
  initialized,      \* how each initialize() so far settled, in order
  connects,         \* the connection attempts made by getPool and getRedisClient, in order
  accesses          \* the getter accesses so far, in order, with what each gave

factoryVars ==
  <<_pool, _redisClient, _services, initializing, initialized, connects, accesses>>

\* the PostgreSQL repositories, their pool and the products table
VARIABLES
  stock,            \* products.stock as committed, per product id
  working,          \* products.stock as the open transaction sees it, or Null
  acquired,         \* the clients pool.connect() has handed out so far
  released,         \* the client.release() calls so far
  operation,        \* the repository operation in progress, or Null
  statements,       \* the statements the operation in progress, or the last one, has sent
  completed         \* the operations that settled, in order, with their outcome

storeVars == <<stock, working, acquired, released, operation, statements, completed>>

\* temporal/client getTemporalClient
VARIABLES
  client,           \* the module-level cached Client, or Null
  connections,      \* the connections Connection.connect has established so far
  getting           \* the getTemporalClient calls so far, in call order

connectVars == <<client, connections, getting>>

allVars ==
  <<vars, retryVars, cancelRequested, clientVars, computeVars, factoryVars, storeVars,
    connectVars>>

Pending == [tag |-> "Pending"]

Left(v) == [tag |-> "Left", value |-> v]

Right(v) == [tag |-> "Right", value |-> v]

Rejected(e) == [tag |-> "Rejected", error |-> e]

\* String(err) of the Error an effect rejected with
ErrText(effect) == "Error: " \o ErrorMessage(effect)

Settled(e) == eff[e] \in {"ok", "failed"}

\* workflowId: options?.workflowId || `order-${orderId}`, with default options
WorkflowIdOf(id) == "order-" \o id

WorkflowIds == {WorkflowIdOf(id) : id \in OrderIds}

\* no activity invocation is followed
RetryIdle ==
  /\ activity = Null
  /\ phase = "none"
  /\ attempt = 0
  /\ currentInterval = 0
  /\ sleeps = <<>>
  /\ lastFailure = Null

\* no workflow has been started through the client
ClientIdle ==
  /\ executions = [id \in WorkflowIds |-> <<>>]
  /\ responses = <<>>
  /\ reported = Null

\* the business logic has not been called on its own
ComputeIdle ==
  /\ given = Null
  /\ returned = <<>>
  /\ invocations = 0

\* new EffectsFactory(config) with initialize() not called, no repository
\* operation started, and the module of temporal/client just loaded
ServicesIdle ==
  /\ _pool = Null
  /\ _redisClient = Null
  /\ _services =
       [g \in {"orders", "customers", "products", "pricing", "cache", "notifications",
               "monitoring", "analytics"} |-> Null]
  /\ initializing = "no"
  /\ initialized = <<>>
  /\ connects = <<>>
  /\ accesses = <<>>
  /\ stock = [p \in ProductIds |-> InitialStock]
  /\ working = Null
  /\ acquired = 0
  /\ released = 0
  /\ operation = Null
  /\ statements = <<>>
  /\ completed = <<>>
  /\ client = Null
  /\ connections = 0
  /\ getting = <<>>

\* processOrder has been called on nothing yet, outside any workflow
Init ==
  /\ coordinator \in Coordinators
  /\ pc = "idle"
  /\ orderId \in OrderIds
  /\ eff = [e \in Effects |-> "idle"]
  /\ value = [e \in Effects |-> Null]
  /\ calls = <<>>
  /\ optionalEffects = <<>>
  /\ result = Pending
  /\ obs = "none"
  /\ sink = <<>>
  /\ RetryIdle
  /\ cancelRequested = FALSE
  /\ ClientIdle
  /\ ComputeIdle
  /\ ServicesIdle

\* the locals of processOrder, once the reads they come from have resolved
order == value["orders.getById"]

customer == value["customers.getById"]

products == value["products.getByIds"]

discountRules == value["pricing.getDiscountRules"]

\* invoking effects es[i] with arguments args[i], one after the other
Invoke(es, args) ==
  /\ eff' = [e \in Effects |->
               IF \E i \in 1..Len(es) : es[i] = e THEN "pending" ELSE eff[e]]
  /\ calls' = calls \o [i \in 1..Len(es) |-> [effect |-> es[i], args |-> args[i]]]

\* ------------------------------------------------------------ environment

Replies(e) ==
  CASE e = "orders.getById" ->
         IF orderId = "missing-order" THEN {Null} ELSE {Null} \cup OrdersOf(orderId)
    [] e = "customers.getById" -> {Null} \cup CustomersOf(calls[Len(calls)].args)
    [] e = "products.getByIds" -> ProductMaps
    [] e = "pricing.getDiscountRules" -> RuleLists
    [] OTHER -> {Null}

\* the promise of effect e resolves
Resolve(e) ==
  /\ eff[e] = "pending"
  /\ \E v \in Replies(e) : value' = [value EXCEPT ![e] = v]
  /\ eff' = [eff EXCEPT ![e] = "ok"]
  /\ UNCHANGED <<coordinator, pc, orderId, calls, optionalEffects, result, obs, sink>>

\* the promise of effect e rejects
Reject(e) ==
  /\ eff[e] = "pending"
  /\ eff' = [eff EXCEPT ![e] = "failed"]
  /\ UNCHANGED <<coordinator, pc, orderId, value, calls, optionalEffects, result, obs, sink>>

\* -------------------------------------------------- processOrder: the reads

\* the failure value of a not-found: a string (after), a NonEmptyList (pure)
NotFound(message) ==
  IF coordinator = "after" THEN Left(message) ELSE Left(<<message>>)

productIds == [i \in 1..Len(order.items) |-> order.items[i].productId]

\* mutant: the rules read hoisted to the start of processOrder
Call_eager ==
  /\ pc = "idle"
  /\ Invoke(<<"orders.getById", "pricing.getDiscountRules">>, <<orderId, <<>>>>)
  /\ pc' = "awaitOrder"
  /\ UNCHANGED <<coordinator, orderId, value, optionalEffects, result, obs, sink>>

\* processOrder(orderId)(effects) is called: it runs up to its first await
Call ==
  /\ pc = "idle"
  /\ Invoke(<<"orders.getById">>, <<orderId>>)
  /\ pc' = "awaitOrder"
  /\ UNCHANGED <<coordinator, orderId, value, optionalEffects, result, obs, sink>>

\* mutant: a miss is reported to analytics before the Failure is returned
ResumeOrder_tracksMiss ==
  /\ pc = "awaitOrder"
  /\ Settled("orders.getById")
  /\ IF eff["orders.getById"] = "failed"
     THEN /\ result' = Rejected(ErrText("orders.getById"))
          /\ pc' = "done"
          /\ UNCHANGED <<eff, calls>>
     ELSE IF order = Null
     THEN /\ result' = NotFound("Order " \o orderId \o " not found")
          /\ pc' = "done"
          /\ Invoke(<<"analytics.trackEvent">>, <<orderId>>)
     ELSE /\ Invoke(<<"customers.getById">>, <<order.customerId>>)
          /\ pc' = "awaitCustomer"
          /\ UNCHANGED result
  /\ UNCHANGED <<coordinator, orderId, value, optionalEffects, obs, sink>>

\* const order = await orders.getById(orderId) has settled
ResumeOrder ==
  /\ pc = "awaitOrder"
  /\ Settled("orders.getById")
  /\ IF eff["orders.getById"] = "failed"
     THEN /\ result' = Rejected(ErrText("orders.getById"))
          /\ pc' = "done"
          /\ UNCHANGED <<eff, calls>>
     ELSE IF order = Null
     THEN /\ result' = NotFound("Order " \o orderId \o " not found")
          /\ pc' = "done"
          /\ UNCHANGED <<eff, calls>>
     ELSE /\ Invoke(<<"customers.getById">>, <<order.customerId>>)
          /\ pc' = "awaitCustomer"
          /\ UNCHANGED result
  /\ UNCHANGED <<coordinator, orderId, value, optionalEffects, obs, sink>>

\* mutant: the Failure names the order's id instead of the customer's
ResumeCustomer_orderId ==
  /\ pc = "awaitCustomer"
  /\ Settled("customers.getById")
  /\ IF eff["customers.getById"] = "failed"
     THEN /\ result' = Rejected(ErrText("customers.getById"))
          /\ pc' = "done"
          /\ UNCHANGED <<eff, calls>>
     ELSE IF customer = Null
     THEN /\ result' = NotFound("Customer " \o order.id \o " not found")
          /\ pc' = "done"
          /\ UNCHANGED <<eff, calls>>
     ELSE /\ Invoke(<<"products.getByIds", "pricing.getDiscountRules">>,
                    <<productIds, <<>>>>)
          /\ pc' = "awaitReads"
          /\ UNCHANGED result
  /\ UNCHANGED <<coordinator, orderId, value, optionalEffects, obs, sink>>

\* mutant: the products are awaited before the rules are asked for
ResumeCustomer_sequential ==
  /\ pc = "awaitCustomer"
  /\ Settled("customers.getById")
  /\ IF eff["customers.getById"] = "failed"
     THEN /\ result' = Rejected(ErrText("customers.getById"))
          /\ pc' = "done"
          /\ UNCHANGED <<eff, calls>>
     ELSE IF customer = Null
     THEN /\ result' = NotFound("Customer " \o order.customerId \o " not found")
          /\ pc' = "done"
          /\ UNCHANGED <<eff, calls>>
     ELSE /\ Invoke(<<"products.getByIds">>, <<productIds>>)
          /\ pc' = "awaitReads"
          /\ UNCHANGED result
  /\ UNCHANGED <<coordinator, orderId, value, optionalEffects, obs, sink>>

\* const customer = await customers.getById(order.customerId) has settled
ResumeCustomer ==
  /\ pc = "awaitCustomer"
  /\ Settled("customers.getById")
  /\ IF eff["customers.getById"] = "failed"
     THEN /\ result' = Rejected(ErrText("customers.getById"))
          /\ pc' = "done"
          /\ UNCHANGED <<eff, calls>>
     ELSE IF customer = Null
     THEN /\ result' = NotFound("Customer " \o order.customerId \o " not found")
          /\ pc' = "done"
          /\ UNCHANGED <<eff, calls>>
     ELSE /\ Invoke(<<"products.getByIds", "pricing.getDiscountRules">>,
                    <<productIds, <<>>>>)
          /\ pc' = "awaitReads"
          /\ UNCHANGED result
  /\ UNCHANGED <<coordinator, orderId, value, optionalEffects, obs, sink>>

\* ------------------------------------------- processOrder: the computation

lineItems == calculateLineItems(order, products).items

missingProductIds == calculateLineItems(order, products).missingProductIds

discountRule ==
  findApplicableDiscount(discountRules, customer.tier, calculateSubtotal(lineItems))

processedOrder == toProcessedOrder(order, customer, lineItems, discountRule)

inventoryUpdates == calculateInventoryUpdates(lineItems)

emailPayload == buildConfirmationEmail(customer, processedOrder)

cacheEntry == buildCacheEntry(processedOrder)

analyticsEvent == buildAnalyticsEvent(processedOrder, customer.tier)

missingProductAlerts == buildMissingProductAlerts(orderId, missingProductIds)

\* mutant: the purchases total is raised by the subtotal, before the discount
Payload_subtotal(e) ==
  CASE e = "products.updateInventory" -> inventoryUpdates
    [] e = "customers.updateTotalPurchases" -> <<customer.id, processedOrder.subtotal>>
    [] e = "cache.set" -> cacheEntry
    [] e = "notifications.sendEmail" -> emailPayload
    [] e = "analytics.trackEvent" -> analyticsEvent
    [] e = "monitoring.sendAlerts" -> missingProductAlerts

\* the argument each write effect is invoked with
Payload(e) ==
  CASE e = "products.updateInventory" -> inventoryUpdates
    [] e = "customers.updateTotalPurchases" -> <<customer.id, processedOrder.total>>
    [] e = "cache.set" -> cacheEntry
    [] e = "notifications.sendEmail" -> emailPayload
    [] e = "analytics.trackEvent" -> analyticsEvent
    [] e = "monitoring.sendAlerts" -> missingProductAlerts

Payloads(es) == [i \in 1..Len(es) |-> Payload(es[i])]

\* ---------------------------------- after/orderProcessor: critical, optional

\* mutant: a rejection is not turned into a Left
EitherOf_alwaysRight(e, prefix) == Right(Null)

\* what EitherAsync(() => effect).mapLeft(err => prefix + err) settled with
EitherOf(e, prefix) ==
  IF eff[e] = "ok" THEN Right(Null) ELSE Left(prefix \o ErrText(e))

\* mutant: the two critical messages exchanged
Prefix_swapped(e) ==
  CASE e = "products.updateInventory" -> "Failed to update customer purchases: "
    [] e = "customers.updateTotalPurchases" -> "Failed to update inventory: "
    [] OTHER -> "Optional effect failed: "

Prefix(e) ==
  CASE e = "products.updateInventory" -> "Failed to update inventory: "
    [] e = "customers.updateTotalPurchases" -> "Failed to update customer purchases: "
    [] e = "cache.set" -> "Cache set failed: "
    [] e = "notifications.sendEmail" -> "Email send failed: "
    [] e = "analytics.trackEvent" -> "Analytics tracking failed: "
    [] e = "monitoring.sendAlerts" -> "Alert send failed: "

AllSettled(es) == \A i \in 1..Len(es) : Settled(es[i])

\* the array await Promise.all([...]) of the critical stage resolves with
criticalEffects ==
  [i \in 1..Len(CriticalEffects) |-> EitherOf(CriticalEffects[i], Prefix(CriticalEffects[i]))]

\* mutant: the check of the critical results left out
criticalFailure_ignored == Null

criticalFailure ==
  LET hits == {i \in 1..Len(criticalEffects) : criticalEffects[i].tag = "Left"}
  IN IF hits = {} THEN Null ELSE criticalEffects[First(hits)]

\* mutant: the alert effect is started whether or not a product is missing
optionalToRun_alwaysAlerts ==
  <<"cache.set", "notifications.sendEmail", "analytics.trackEvent", "monitoring.sendAlerts">>

\* the optional effects the success path builds, sendAlerts only when a product is missing
optionalToRun ==
  <<"cache.set", "notifications.sendEmail", "analytics.trackEvent">>
    \o (IF Len(missingProductAlerts) > 0 THEN <<"monitoring.sendAlerts">> ELSE <<>>)

\* the output effects finaliseOrder (pure) runs, all of them awaited
finaliseEffects ==
  <<"products.updateInventory", "customers.updateTotalPurchases",
    "cache.set", "notifications.sendEmail", "analytics.trackEvent">>
    \o (IF Len(missingProductIds) > 0 THEN <<"monitoring.sendAlerts">> ELSE <<>>)

\* await Promise.all([EitherAsync(updateInventory), EitherAsync(updateTotalPurchases)])
\* starts: Promise.all takes both thenables, so both effects are invoked, in order
DispatchCritical_sequential ==
  /\ Invoke(<<CriticalEffects[1]>>, Payloads(<<CriticalEffects[1]>>))
  /\ pc' = "awaitCritical"

DispatchCritical ==
  /\ Invoke(CriticalEffects, Payloads(CriticalEffects))
  /\ pc' = "awaitCritical"

\* finaliseOrder: effects.map(e => EitherAsync(e).run()) invokes every output effect
DispatchFinalise ==
  /\ Invoke(finaliseEffects, Payloads(finaliseEffects))
  /\ pc' = "awaitEffects"

\* pure/orderProcessing doProcessOrder: calculateLineItems returns an object with
\* the properties items and missingProductIds; the destructuring
\* const {lineItems, missingProductIds} leaves lineItems undefined, and the call
\* lineItems.reduce(...) in the next statement throws.  The exception leaves the
\* async function: finaliseOrder is never called
doProcessOrder ==
  /\ result' = Rejected("TypeError: Cannot read properties of undefined (reading 'reduce')")
  /\ pc' = "done"
  /\ UNCHANGED <<eff, calls>>

\* await Promise.all([products.getByIds, pricing.getDiscountRules]) has settled:
\* rejected by the first read to reject, or resolved once both have resolved
ResumeReads ==
  /\ pc = "awaitReads"
  /\ \/ /\ \E e \in {"products.getByIds", "pricing.getDiscountRules"} :
             /\ eff[e] = "failed"
             /\ result' = Rejected(ErrText(e))
        /\ pc' = "done"
        /\ UNCHANGED <<eff, calls>>
     \/ /\ \A e \in {"products.getByIds", "pricing.getDiscountRules"} : eff[e] = "ok"
        /\ IF coordinator = "after"
           THEN DispatchCritical /\ UNCHANGED result
           ELSE doProcessOrder
  /\ UNCHANGED <<coordinator, orderId, value, optionalEffects, obs, sink>>

\* mutant: the optional effects are awaited before the result is produced
ResumeCritical_awaitsOptional ==
  /\ pc = "awaitCritical"
  /\ AllSettled(CriticalEffects)
  /\ IF criticalFailure # Null
     THEN /\ result' = criticalFailure
          /\ pc' = "done"
          /\ UNCHANGED <<eff, calls, optionalEffects, obs>>
     ELSE /\ Invoke(optionalToRun, Payloads(optionalToRun))
          /\ optionalEffects' = optionalToRun
          /\ obs' = "waiting"
          /\ pc' = "awaitOptional"
          /\ UNCHANGED result
  /\ UNCHANGED <<coordinator, orderId, value, sink>>

\* mutant: a failure of the purchases update takes the inventory update back
ResumeCritical_compensates ==
  /\ pc = "awaitCritical"
  /\ AllSettled(CriticalEffects)
  /\ IF criticalFailure # Null
     THEN /\ result' = criticalFailure
          /\ IF eff[CriticalEffects[1]] = "ok"
             THEN Invoke(<<CriticalEffects[1]>>,
                         <<[i \in 1..Len(inventoryUpdates) |->
                              [inventoryUpdates[i] EXCEPT !.quantityChange = 0 - @]]>>)
             ELSE UNCHANGED <<eff, calls>>
          /\ UNCHANGED <<optionalEffects, obs>>
     ELSE /\ Invoke(optionalToRun, Payloads(optionalToRun))
          /\ optionalEffects' = optionalToRun
          /\ obs' = "waiting"
          /\ result' = Right(processedOrder)
  /\ pc' = "done"
  /\ UNCHANGED <<coordinator, orderId, value, sink>>

\* await Promise.all(critical effects) has resolved: return the first failure,
\* or start the optional effects, attach their observer and return Right
ResumeCritical ==
  /\ pc = "awaitCritical"
  /\ AllSettled(CriticalEffects)
  /\ IF criticalFailure # Null
     THEN /\ result' = criticalFailure
          /\ UNCHANGED <<eff, calls, optionalEffects, obs>>
     ELSE /\ Invoke(optionalToRun, Payloads(optionalToRun))
          /\ optionalEffects' = optionalToRun
          /\ obs' = "waiting"
          /\ result' = Right(processedOrder)
  /\ pc' = "done"
  /\ UNCHANGED <<coordinator, orderId, value, sink>>

\* mutant: every outcome is written, a success as an empty line
warnings_all ==
  [i \in 1..Len(optionalEffects) |->
     IF eff[optionalEffects[i]] = "failed"
     THEN Prefix(optionalEffects[i]) \o ErrText(optionalEffects[i])
     ELSE ""]

\* the strings console.warn receives: the Left of every failed optional effect
warnings ==
  LET results == [i \in 1..Len(optionalEffects) |->
                    EitherOf(optionalEffects[i], Prefix(optionalEffects[i]))]
      lefts == SelectSeq(results, LAMBDA r : r.tag = "Left")
  IN [i \in 1..Len(lefts) |-> lefts[i].value]

\* mutant: a failed optional effect replaces the result
ObserveOptional_failsOrder ==
  /\ obs = "waiting"
  /\ AllSettled(optionalEffects)
  /\ sink' = sink \o warnings
  /\ obs' = "logged"
  /\ result' = IF Len(warnings) > 0 THEN Left(warnings[1]) ELSE result
  /\ UNCHANGED <<coordinator, pc, orderId, eff, value, calls, optionalEffects>>

\* Promise.all(optionalEffects.map(run)).then(results => ...) runs its callback
ObserveOptional ==
  /\ obs = "waiting"
  /\ AllSettled(optionalEffects)
  /\ sink' = sink \o warnings
  /\ obs' = "logged"
  /\ UNCHANGED <<coordinator, pc, orderId, eff, value, calls, optionalEffects, result>>

\* ------------------------------------------ pure/orderProcessing: finalise

RECURSIVE join(_, _)
join(strings, separator) ==
  IF strings = <<>> THEN ""
  ELSE IF Len(strings) = 1 THEN strings[1]
  ELSE strings[1] \o separator \o join(Tail(strings), separator)

\* new EffectsError(errors), as String(error)
EffectsError(errors) == "EffectsError: " \o join(errors, "; ")

\* Maybe.fromPredicate(a => a.length > 0, missingProductIds)
MaybeNonEmpty(ids) ==
  IF Len(ids) > 0 THEN [tag |-> "Just", value |-> ids] ELSE [tag |-> "Nothing"]

\* what doProcessOrder returns: the processed order with its line items
processedOrderWithLineItems ==
  processedOrder @@
    [lineItems |-> lineItems, missingProductIds |-> MaybeNonEmpty(missingProductIds)]

\* mutant: only the first failure is kept
finaliseErrors_first ==
  LET failed == SelectSeq(finaliseEffects, LAMBDA e : eff[e] = "failed")
  IN IF failed = <<>> THEN <<>> ELSE <<ErrorMessage(failed[1])>>

\* Either.lefts(results), as the messages of the Errors
finaliseErrors ==
  LET failed == SelectSeq(finaliseEffects, LAMBDA e : eff[e] = "failed")
  IN [i \in 1..Len(failed) |-> ErrorMessage(failed[i])]

\* mutant: the first failure ends finaliseOrder, the other effects are not waited for
ResumeEffects_failFast ==
  /\ pc = "awaitEffects"
  /\ \/ AllSettled(finaliseEffects)
     \/ \E i \in 1..Len(finaliseEffects) : eff[finaliseEffects[i]] = "failed"
  /\ IF Len(finaliseErrors) > 0
     THEN result' = Rejected(EffectsError(<<finaliseErrors[1]>>))
     ELSE result' = Right(processedOrderWithLineItems)
  /\ pc' = "done"
  /\ UNCHANGED <<coordinator, orderId, eff, value, calls, optionalEffects, obs, sink>>

\* await Promise.all(effects.map(e => EitherAsync(e).run())) has resolved
ResumeEffects ==
  /\ pc = "awaitEffects"
  /\ AllSettled(finaliseEffects)
  /\ IF Len(finaliseErrors) > 0
     THEN result' = Rejected(EffectsError(finaliseErrors))
     ELSE result' = Right(processedOrderWithLineItems)
  /\ pc' = "done"
  /\ UNCHANGED <<coordinator, orderId, eff, value, calls, optionalEffects, obs, sink>>

\* ---------------------------------------------------------- specification

\* what a step of processOrder or of its effects leaves alone
outside ==
  <<retryVars, cancelRequested, clientVars, computeVars, factoryVars, storeVars, connectVars>>

Next ==
  \/ Call /\ UNCHANGED outside
  \/ ResumeOrder /\ UNCHANGED outside
  \/ ResumeCustomer /\ UNCHANGED outside
  \/ ResumeReads /\ UNCHANGED outside
  \/ ResumeCritical /\ UNCHANGED outside
  \/ ObserveOptional /\ UNCHANGED outside
  \/ \E e \in Effects : Resolve(e) /\ UNCHANGED outside
  \/ \E e \in Effects : Reject(e) /\ UNCHANGED outside

\* one call of processOrder against effects that may resolve, reject or hang
Spec == Init /\ [][Next]_allVars

\* the event loop runs a callback whose promise has settled
FairSpec == Spec /\ WF_vars(ObserveOptional)

\* ------------------------------------- temporal/workflows: retry policies

\* mutant: the store policy allows a tenth attempt
databaseActivityOptions_tenAttempts ==
  [startToCloseTimeout |-> 120000,
   initialInterval |-> 500,
   backoffCoefficient |-> 2,
   maximumAttempts |-> 10,
   maximumInterval |-> 1600]

\* times in ms
databaseActivityOptions ==
  [startToCloseTimeout |-> 120000,
   initialInterval |-> 500,
   backoffCoefficient |-> 2,
   maximumAttempts |-> 9,
   maximumInterval |-> 1600]

\* mutant: maximumAttempts 0, which Temporal reads as no limit
apiActivityOptions_unlimited ==
  [startToCloseTimeout |-> 150000,
   initialInterval |-> 500,
   backoffCoefficient |-> 2,
   maximumAttempts |-> 0,
   maximumInterval |-> 3000]

apiActivityOptions ==
  [startToCloseTimeout |-> 150000,
   initialInterval |-> 500,
   backoffCoefficient |-> 2,
   maximumAttempts |-> 10,
   maximumInterval |-> 3000]

\* mutant: the ceiling of the cache policy raised tenfold
cacheActivityOptions_highCeiling ==
  [startToCloseTimeout |-> 120000,
   initialInterval |-> 250,
   backoffCoefficient |-> 2,
   maximumAttempts |-> 10,
   maximumInterval |-> 100000]

cacheActivityOptions ==
  [startToCloseTimeout |-> 120000,
   initialInterval |-> 250,
   backoffCoefficient |-> 2,
   maximumAttempts |-> 10,
   maximumInterval |-> 10000]

defaultActivityOptions ==
  [startToCloseTimeout |-> 120000,
   initialInterval |-> 1000,
   backoffCoefficient |-> 2,
   maximumAttempts |-> 10,
   maximumInterval |-> 30000]

\* the activities each proxyActivities call hands out
DatabaseActivities ==
  {"getOrderById", "getCustomerById", "updateTotalPurchases", "getProductsByIds",
   "updateInventory"}

ApiActivities == {"getDiscountRules"}

CacheActivities == {"setCacheEntry"}

DefaultActivities == {"sendEmail", "sendAlerts", "trackEvent"}

Activities == DatabaseActivities \cup ApiActivities \cup CacheActivities \cup DefaultActivities

\* mutant: one proxy, with the store options, hands out every activity
OptionsOf_oneProxy(a) == databaseActivityOptions

\* temporalEffects: the activity that stands behind each effect of AppEffects
ActivityOf(e) ==
  CASE e = "orders.getById" -> "getOrderById"
    [] e = "customers.getById" -> "getCustomerById"
    [] e = "customers.updateTotalPurchases" -> "updateTotalPurchases"
    [] e = "products.getByIds" -> "getProductsByIds"
    [] e = "products.updateInventory" -> "updateInventory"
    [] e = "pricing.getDiscountRules" -> "getDiscountRules"
    [] e = "cache.set" -> "setCacheEntry"
    [] e = "notifications.sendEmail" -> "sendEmail"
    [] e = "monitoring.sendAlerts" -> "sendAlerts"
    [] e = "analytics.trackEvent" -> "trackEvent"

\* the options of the proxy an activity was taken from
OptionsOf(a) ==
  CASE a \in DatabaseActivities -> databaseActivityOptions
    [] a \in ApiActivities -> apiActivityOptions
    [] a \in CacheActivities -> cacheActivityOptions
    [] a \in DefaultActivities -> defaultActivityOptions

retry == OptionsOf(activity)

Min(a, b) == IF a <= b THEN a ELSE b

\* the ways an attempt fails: the activity throws, or startToCloseTimeout elapses
FailureKinds == {"error", "timeout"}

\* no attempt is started beyond this one (a policy without a limit is followed so far)
MaxAttempt == 12

\* processOrder itself is not followed
NotCalled ==
  /\ coordinator = "pure"
  /\ pc = "idle"
  /\ orderId = "order-123"
  /\ eff = [e \in Effects |-> "idle"]
  /\ value = [e \in Effects |-> Null]
  /\ calls = <<>>
  /\ optionalEffects = <<>>
  /\ result = Pending
  /\ obs = "none"
  /\ sink = <<>>

\* the workflow calls the activity: its first attempt starts
RetryInit ==
  /\ activity \in Activities
  /\ phase = "running"
  /\ attempt = 1
  /\ currentInterval = OptionsOf(activity).initialInterval
  /\ sleeps = <<>>
  /\ lastFailure = Null
  /\ NotCalled
  /\ cancelRequested = FALSE
  /\ ClientIdle
  /\ ComputeIdle
  /\ ServicesIdle

\* the attempt in progress returns: the invocation is over, nothing is retried
AttemptSucceeds ==
  /\ phase = "running"
  /\ phase' = "completed"
  /\ UNCHANGED <<activity, attempt, currentInterval, sleeps, lastFailure>>

\* the budget of attempts is used up (maximumAttempts 0 is no limit)
Exhausted == retry.maximumAttempts # 0 /\ attempt >= retry.maximumAttempts

\* the attempt in progress fails: the failure is surfaced if the budget is used
\* up, otherwise the next attempt is put off by min(currentInterval, maximumInterval)
AttemptFails ==
  /\ phase = "running"
  /\ \E kind \in FailureKinds : lastFailure' = [attempt |-> attempt, kind |-> kind]
  /\ IF Exhausted
     THEN /\ phase' = "failed"
          /\ UNCHANGED <<currentInterval, sleeps>>
     ELSE /\ phase' = "backoff"
          /\ sleeps' = Append(sleeps, Min(currentInterval, retry.maximumInterval))
          /\ currentInterval' = currentInterval * retry.backoffCoefficient
  /\ UNCHANGED <<activity, attempt>>

\* the backoff sleep is over: the next attempt starts
Wake ==
  /\ phase = "backoff"
  /\ attempt < MaxAttempt
  /\ phase' = "running"
  /\ attempt' = attempt + 1
  /\ UNCHANGED <<activity, currentInterval, sleeps, lastFailure>>

\* the workflow is cancelled while the activity is being attempted or is backing
\* off: the invocation ends as a failure, no further attempt is made
CancelActivity ==
  /\ phase \in {"running", "backoff"}
  /\ phase' = "cancelled"
  /\ lastFailure' = [attempt |-> attempt, kind |-> "cancelled"]
  /\ UNCHANGED <<activity, attempt, currentInterval, sleeps>>

RetryNext ==
  \/ AttemptSucceeds /\ UNCHANGED <<vars, cancelRequested, clientVars, computeVars, factoryVars, storeVars, connectVars>>
  \/ AttemptFails /\ UNCHANGED <<vars, cancelRequested, clientVars, computeVars, factoryVars, storeVars, connectVars>>
  \/ Wake /\ UNCHANGED <<vars, cancelRequested, clientVars, computeVars, factoryVars, storeVars, connectVars>>
  \/ CancelActivity /\ UNCHANGED <<vars, cancelRequested, clientVars, computeVars, factoryVars, storeVars, connectVars>>

\* one activity invocation under its retry policy
RetrySpec == RetryInit /\ [][RetryNext]_allVars

\* an attempt ends (it returns, throws, or is timed out by startToCloseTimeout) and
\* a backoff timer fires
RetryFairSpec ==
  RetrySpec /\ WF_retryVars(AttemptSucceeds \/ AttemptFails) /\ WF_retryVars(Wake)

\* ------------------------------ temporal/workflows: processOrderWorkflow

\* processOrderWorkflow(orderId) has been started: it runs pure/orderProcessing
\* processOrder with the proxied activities as its effects
WorkflowInit ==
  /\ Init
  /\ coordinator = "pure"
  /\ orderId = "order-123"

\* an activity completes and its promise resolves in the workflow; in a workflow
\* that has been cancelled an activity promise no longer resolves
ActivityResolves(e) == cancelRequested = FALSE /\ Resolve(e)

\* an activity ends its retry loop with a failure, or is refused because the
\* workflow has been cancelled
ActivityRejects(e) == Reject(e)

\* cancelOrderProcessing: handle.cancel() reaches the running workflow; every
\* activity still inside its retry loop ends there and its promise rejects (the
\* model keeps, as for any rejection, ErrorMessage as the text of that failure)
CancelWorkflow ==
  /\ pc \notin {"idle", "done"}
  /\ cancelRequested = FALSE
  /\ cancelRequested' = TRUE
  /\ eff' = [e \in Effects |-> IF eff[e] = "pending" THEN "failed" ELSE eff[e]]
  /\ UNCHANGED <<coordinator, pc, orderId, value, calls, optionalEffects, result, obs, sink>>

WorkflowNext ==
  \/ Call /\ UNCHANGED outside
  \/ ResumeOrder /\ UNCHANGED outside
  \/ ResumeCustomer /\ UNCHANGED outside
  \/ ResumeReads /\ UNCHANGED outside
  \/ \E e \in Effects : ActivityResolves(e) /\ UNCHANGED outside
  \/ \E e \in Effects : ActivityRejects(e) /\ UNCHANGED outside
  \/ CancelWorkflow /\ UNCHANGED <<retryVars, clientVars, computeVars, factoryVars, storeVars, connectVars>>

\* one run of processOrderWorkflow that may be cancelled
WorkflowSpec == WorkflowInit /\ [][WorkflowNext]_allVars

\* --------------------------------- finaliseOrder, called on its own inputs

\* finaliseOrder(customer, processedOrder)(appEffects) is about to be called with
\* the customer and the processed order of an order whose reads have resolved;
\* processOrder itself does not get here (doProcessOrder)
FinaliseInit ==
  /\ coordinator = "pure"
  /\ pc = "finalise"
  /\ orderId = "order-123"
  /\ eff = [e \in Effects |-> IF e \in ReadEffects THEN "ok" ELSE "idle"]
  /\ \E o \in OrdersOf(orderId), p \in ProductMaps, r \in RuleLists :
     \E c \in CustomersOf(o.customerId) :
       value = [e \in Effects |->
                  CASE e = "orders.getById" -> o
                    [] e = "customers.getById" -> c
                    [] e = "products.getByIds" -> p
                    [] e = "pricing.getDiscountRules" -> r
                    [] OTHER -> Null]
  /\ calls = <<>>
  /\ optionalEffects = <<>>
  /\ result = Pending
  /\ obs = "none"
  /\ sink = <<>>
  /\ RetryIdle
  /\ cancelRequested = FALSE
  /\ ClientIdle
  /\ ComputeIdle
  /\ ServicesIdle

\* finaliseOrder runs up to its await
FinaliseCall ==
  /\ pc = "finalise"
  /\ DispatchFinalise
  /\ UNCHANGED <<coordinator, orderId, value, optionalEffects, result, obs, sink>>

FinaliseNext ==
  \/ FinaliseCall /\ UNCHANGED outside
  \/ ResumeEffects /\ UNCHANGED outside
  \/ \E e \in Effects : ActivityResolves(e) /\ UNCHANGED outside
  \/ \E e \in Effects : ActivityRejects(e) /\ UNCHANGED outside
  \/ CancelWorkflow /\ UNCHANGED <<retryVars, clientVars, computeVars, factoryVars, storeVars, connectVars>>

\* one call of finaliseOrder, inside a workflow that may be cancelled, and the
\* settlement processOrder gives its promise after it (lines 62-68)
FinaliseSpec == FinaliseInit /\ [][FinaliseNext]_allVars

\* ------------------------------------ the business logic, called on values

\* most calls of the business logic followed in one behaviour
MaxCalls == 3

\* largest total calculateLoyaltyPoints is called with, in whole currency units
MaxTotal == 100

\* what GET /api/discount-rules may answer: response.data is returned as it came,
\* so besides the lists above a list of several tiers, and a rule whose percentage
\* is above 100
FetchableRuleLists ==
  RuleLists \cup
    { <<[tier |-> "standard", minPurchase |-> 100, discountPercent |-> 5],
        [tier |-> "premium", minPurchase |-> 50, discountPercent |-> 10],
        [tier |-> "premium", minPurchase |-> 200, discountPercent |-> 15],
        [tier |-> "vip", minPurchase |-> 0, discountPercent |-> 20]>>,
      <<[tier |-> "premium", minPurchase |-> 0, discountPercent |-> 150]>> }

\* the arguments of the computation: order, customer, products, discountRules
ComputationInputs ==
  { [fn |-> "computation", order |-> o, customer |-> c, products |-> p, discountRules |-> r] :
      o \in OrdersOf("order-123"), c \in CustomersOf("cust-456"),
      p \in ProductMaps, r \in FetchableRuleLists }

\* the arguments of calculateLoyaltyPoints: a total in hundredths, in steps of a
\* half unit, and a tier
LoyaltyInputs ==
  { [fn |-> "calculateLoyaltyPoints", total |-> 50 * k, tier |-> t] :
      k \in 0..(2 * MaxTotal), t \in Tiers }

\* mutant: a counter of the calls made so far leaks into the points
computation_counting(o, c, p, rules) ==
  LET line == calculateLineItems(o, p)
      rule == findApplicableDiscount(rules, c.tier, calculateSubtotal(line.items))
      processed == toProcessedOrder(o, c, line.items, rule)
  IN [lineItems |-> line.items,
      missingProductIds |-> line.missingProductIds,
      discountRule |-> rule,
      processedOrder |->
        [processed EXCEPT !.loyaltyPointsEarned = @ + invocations]]

\* the computation of processOrder: line items, applicable rule, processed order
computation(o, c, p, rules) ==
  LET line == calculateLineItems(o, p)
      rule == findApplicableDiscount(rules, c.tier, calculateSubtotal(line.items))
  IN [lineItems |-> line.items,
      missingProductIds |-> line.missingProductIds,
      discountRule |-> rule,
      processedOrder |-> toProcessedOrder(o, c, line.items, rule)]

ComputeInit ==
  /\ given \in ComputationInputs \cup LoyaltyInputs
  /\ returned = <<>>
  /\ invocations = 0
  /\ NotCalled
  /\ RetryIdle
  /\ cancelRequested = FALSE
  /\ ClientIdle
  /\ ServicesIdle

\* the computation is called on the given arguments
Compute ==
  /\ given.fn = "computation"
  /\ invocations < MaxCalls
  /\ returned' = Append(returned,
       [call |-> invocations + 1,
        value |-> computation(given.order, given.customer, given.products,
                              given.discountRules)])
  /\ invocations' = invocations + 1
  /\ UNCHANGED given

\* calculateLoyaltyPoints is called on the given arguments
CalculateLoyaltyPoints ==
  /\ given.fn = "calculateLoyaltyPoints"
  /\ invocations < MaxCalls
  /\ returned' = Append(returned,
       [call |-> invocations + 1,
        value |-> calculateLoyaltyPoints(given.total, given.tier)])
  /\ invocations' = invocations + 1
  /\ UNCHANGED given

\* the business logic is called on other arguments, for another order: its
\* functions write to no variable outside their own locals, so nothing but the
\* number of calls made changes
OtherCall ==
  /\ invocations < MaxCalls
  /\ invocations' = invocations + 1
  /\ UNCHANGED <<given, returned>>

ComputeNext ==
  \/ Compute /\ UNCHANGED <<vars, retryVars, cancelRequested, clientVars, factoryVars, storeVars, connectVars>>
  \/ CalculateLoyaltyPoints /\ UNCHANGED <<vars, retryVars, cancelRequested, clientVars, factoryVars, storeVars, connectVars>>
  \/ OtherCall /\ UNCHANGED <<vars, retryVars, cancelRequested, clientVars, factoryVars, storeVars, connectVars>>

\* calls of the business logic on fixed arguments, with other calls in between
ComputeSpec == ComputeInit /\ [][ComputeNext]_allVars

\* ------------------------------------------ temporal/client and HTTP API

\* most requests POST /api/orders/:orderId/process followed
MaxRequests == 3

\* the run of workflow id that is open, if any
Running(id) ==
  Len(executions[id]) > 0 /\ executions[id][Len(executions[id])] = "RUNNING"

\* what temporalClient.workflow.start settles with.  No workflowIdReusePolicy is
\* passed, so the server refuses the id only while a run of it is open; a lost
\* connection fails the call as well
StartOutcomes(id) ==
  {[ok |-> FALSE, message |-> "Connection refused"]}
    \cup (IF Running(id)
          THEN {[ok |-> FALSE, message |-> "Workflow execution already started"]}
          ELSE {[ok |-> TRUE, workflowId |-> id]})

\* the response of the handler: 202 on a handle, 409 when the error message
\* includes 'already started', 500 otherwise
ResponseOf(ofOrder, outcome) ==
  IF outcome.ok
  THEN [orderId |-> ofOrder, status |-> 202, workflowId |-> outcome.workflowId]
  ELSE IF outcome.message = "Workflow execution already started"
  THEN [orderId |-> ofOrder, status |-> 409]
  ELSE [orderId |-> ofOrder, status |-> 500]

ClientInit ==
  /\ ClientIdle
  /\ ComputeIdle
  /\ ServicesIdle
  /\ NotCalled
  /\ RetryIdle
  /\ cancelRequested = FALSE

\* POST /api/orders/:orderId/process: processOrderAsync, startOrderProcessing
PostProcess(ofOrder) ==
  /\ Len(responses) < MaxRequests
  /\ \E outcome \in StartOutcomes(WorkflowIdOf(ofOrder)) :
       /\ executions' =
            IF outcome.ok
            THEN [executions EXCEPT ![WorkflowIdOf(ofOrder)] = Append(@, "RUNNING")]
            ELSE executions
       /\ responses' = Append(responses, ResponseOf(ofOrder, outcome))
  /\ UNCHANGED reported

\* the open run of a workflow ends: processOrderWorkflow returned or failed
WorkflowCloses(id, status) ==
  /\ Running(id)
  /\ executions' = [executions EXCEPT ![id][Len(executions[id])] = status]
  /\ UNCHANGED <<responses, reported>>

\* cancelOrderProcessing(orderId): handle.cancel() on the open run
CancelOrderProcessing(ofOrder) ==
  /\ Running(WorkflowIdOf(ofOrder))
  /\ executions' =
       [executions EXCEPT ![WorkflowIdOf(ofOrder)][Len(executions[WorkflowIdOf(ofOrder)])] =
          "CANCELLED"]
  /\ UNCHANGED <<responses, reported>>

\* what handle.describe() of workflow id settles with: the status of the
\* latest run of the id, a WorkflowNotFoundError when the id has no run, or
\* the error of a lost connection
DescribeOutcomes(id) ==
  {[message |-> "Connection refused"]}
    \cup (IF Len(executions[id]) = 0
          THEN {[message |-> "workflow not found for ID: " \o id]}
          ELSE {[status |-> executions[id][Len(executions[id])]]})

\* getOrderProcessingStatus, were every closed run that did not complete
\* reported as failed
OrderProcessingStatus_closed(id, described, resultArrives) ==
  IF "status" \in DOMAIN described
  THEN IF described.status = "COMPLETED"
       THEN IF resultArrives
            THEN [status |-> "completed", result |-> "result of " \o id]
            ELSE [thrown |-> "Connection refused"]
       ELSE IF described.status = "RUNNING"
       THEN [status |-> "running"]
       ELSE [status |-> "failed",
             error |-> "Workflow failed - check Temporal UI for details"]
  ELSE IF described.message = "workflow not found for ID: " \o id
  THEN [status |-> "not_found"]
  ELSE [thrown |-> described.message]

\* what getOrderProcessingStatus settles with, given what describe() settled
\* with and whether handle.result() of a completed run arrives: the catch
\* turns an error whose message includes 'not found' into not_found and
\* re-throws any other
OrderProcessingStatus(id, described, resultArrives) ==
  IF "status" \in DOMAIN described
  THEN IF described.status = "COMPLETED"
       THEN IF resultArrives
            THEN [status |-> "completed", result |-> "result of " \o id]
            ELSE [thrown |-> "Connection refused"]
       ELSE IF described.status = "FAILED"
       THEN [status |-> "failed",
             error |-> "Workflow failed - check Temporal UI for details"]
       ELSE [status |-> "running"]
  ELSE IF described.message = "workflow not found for ID: " \o id
  THEN [status |-> "not_found"]
  ELSE [thrown |-> described.message]

\* getOrderProcessingStatus(orderId)
GetOrderProcessingStatus(ofOrder) ==
  /\ \E described \in DescribeOutcomes(WorkflowIdOf(ofOrder)), resultArrives \in BOOLEAN :
       reported' =
         [orderId |-> ofOrder, described |-> described,
          response |->
            OrderProcessingStatus(WorkflowIdOf(ofOrder), described, resultArrives)]
  /\ UNCHANGED <<executions, responses>>

ClientNext ==
  \/ \E ofOrder \in OrderIds :
       PostProcess(ofOrder) /\ UNCHANGED <<vars, retryVars, cancelRequested, computeVars, factoryVars, storeVars, connectVars>>
  \/ \E id \in WorkflowIds, status \in {"COMPLETED", "FAILED", "TERMINATED", "TIMED_OUT"} :
       WorkflowCloses(id, status) /\ UNCHANGED <<vars, retryVars, cancelRequested, computeVars, factoryVars, storeVars, connectVars>>
  \/ \E ofOrder \in OrderIds :
       CancelOrderProcessing(ofOrder) /\ UNCHANGED <<vars, retryVars, cancelRequested, computeVars, factoryVars, storeVars, connectVars>>
  \/ \E ofOrder \in OrderIds :
       GetOrderProcessingStatus(ofOrder) /\ UNCHANGED <<vars, retryVars, cancelRequested, computeVars, factoryVars, storeVars, connectVars>>

\* requests to the API, and the workflows they start
ClientSpec == ClientInit /\ [][ClientNext]_allVars

\* ------------------------------------------------- effects/EffectsFactory

\* most initialize() calls and getter accesses followed on one factory
MaxInitialize == 3

MaxAccesses == 3

\* the Error a getter throws because the handle its service is built on is
\* not set, or Null when the service can be built
NotInitialized(g) ==
  IF g \in {"orders", "customers", "products"} /\ _pool = Null
  THEN [message |-> "Database pool not initialized. Call initialize() first."]
  ELSE IF g = "cache" /\ _redisClient = Null
  THEN [message |-> "Redis client not initialized. Call initialize() first."]
  ELSE Null

\* an access of one of the eight getters.  A service is identified by the
\* number of the access that constructed it
get_uncached(g) ==
  /\ Len(accesses) < MaxAccesses
  /\ IF NotInitialized(g) # Null
     THEN /\ accesses' = Append(accesses, [getter |-> g, thrown |-> NotInitialized(g).message])
          /\ UNCHANGED _services
     ELSE /\ _services' = [_services EXCEPT ![g] = [constructed |-> Len(accesses) + 1]]
          /\ accesses' = Append(accesses, [getter |-> g, service |-> _services'[g]])
  /\ UNCHANGED <<_pool, _redisClient, initializing, initialized, connects>>

get(g) ==
  /\ Len(accesses) < MaxAccesses
  /\ IF _services[g] # Null
     THEN /\ accesses' = Append(accesses, [getter |-> g, service |-> _services[g]])
          /\ UNCHANGED _services
     ELSE IF NotInitialized(g) # Null
     THEN /\ accesses' = Append(accesses, [getter |-> g, thrown |-> NotInitialized(g).message])
          /\ UNCHANGED _services
     ELSE /\ _services' = [_services EXCEPT ![g] = [constructed |-> Len(accesses) + 1]]
          /\ accesses' = Append(accesses, [getter |-> g, service |-> _services'[g]])
  /\ UNCHANGED <<_pool, _redisClient, initializing, initialized, connects>>

\* await this.getRedisClient() of initialize, up to its first suspension: the
\* client is created and stored, then connect() is awaited; with a client
\* stored already initialize() is through
getRedisClient ==
  IF _redisClient = Null
  THEN /\ _redisClient' = [socket |-> "config.redis"]
       /\ initializing' = "redis.connect"
       /\ UNCHANGED initialized
  ELSE /\ initializing' = "no"
       /\ initialized' = Append(initialized, "initialized")
       /\ UNCHANGED _redisClient

\* initialize(), up to its first suspension: getPool creates and stores the
\* Pool and awaits the test connection; with a Pool stored already it
\* returns it and getRedisClient is next
initialize ==
  /\ initializing = "no"
  /\ Len(initialized) < MaxInitialize
  /\ IF _pool = Null
     THEN /\ _pool' = [max |-> 20]
          /\ initializing' = "pool.connect"
          /\ UNCHANGED <<_redisClient, initialized>>
     ELSE /\ getRedisClient
          /\ UNCHANGED _pool
  /\ UNCHANGED <<_services, connects, accesses>>

\* the test connection settles, a Pool whose test failed being dropped again
PoolConnectSettles_discards ==
  /\ initializing = "pool.connect"
  /\ connects' = Append(connects, "postgres")
  /\ \/ getRedisClient /\ UNCHANGED _pool
     \/ /\ initializing' = "no"
        /\ initialized' = Append(initialized, "postgres failed")
        /\ _pool' = Null
        /\ UNCHANGED _redisClient
  /\ UNCHANGED <<_services, accesses>>

\* the test connection of getPool settles: released and on to getRedisClient,
\* or the error is logged and re-thrown out of initialize()
PoolConnectSettles ==
  /\ initializing = "pool.connect"
  /\ connects' = Append(connects, "postgres")
  /\ \/ getRedisClient
     \/ /\ initializing' = "no"
        /\ initialized' = Append(initialized, "postgres failed")
        /\ UNCHANGED _redisClient
  /\ UNCHANGED <<_pool, _services, accesses>>

\* this._redisClient.connect() settles
RedisConnectSettles ==
  /\ initializing = "redis.connect"
  /\ connects' = Append(connects, "redis")
  /\ initializing' = "no"
  /\ \E outcome \in {"initialized", "redis failed"} :
       initialized' = Append(initialized, outcome)
  /\ UNCHANGED <<_pool, _redisClient, _services, accesses>>

FactoryNext ==
  \/ \E g \in DOMAIN _services :
       get(g) /\ UNCHANGED <<vars, retryVars, cancelRequested, clientVars, computeVars,
                            storeVars, connectVars>>
  \/ initialize /\ UNCHANGED <<vars, retryVars, cancelRequested, clientVars, computeVars,
                              storeVars, connectVars>>
  \/ PoolConnectSettles /\ UNCHANGED <<vars, retryVars, cancelRequested, clientVars,
                                      computeVars, storeVars, connectVars>>
  \/ RedisConnectSettles /\ UNCHANGED <<vars, retryVars, cancelRequested, clientVars,
                                       computeVars, storeVars, connectVars>>

\* the process has started: nothing has been called yet
ServicesInit ==
  /\ NotCalled
  /\ RetryIdle
  /\ cancelRequested = FALSE
  /\ ClientIdle
  /\ ComputeIdle
  /\ ServicesIdle

\* one EffectsFactory: initialize() calls one after the other, getters
\* accessed at any moment
FactorySpec == ServicesInit /\ [][FactoryNext]_allVars

\* -------------------------------------- effects/EffectsFactory repositories

\* most repository operations followed, one after the other
MaxOperations == 2

\* finally { client.release() } of an operation that settles: thrown is the
\* statement whose error the caller gets, "none" when it returns
Finally_leaks(sent, failed, thrown) ==
  /\ released' = IF thrown = "none" THEN released + 1 ELSE released
  /\ operation' = Null
  /\ completed' =
       Append(completed,
              [name |-> operation.name, size |-> Len(operation.list),
               statements |-> sent, failed |-> failed, thrown |-> thrown])

Finally(sent, failed, thrown) ==
  /\ released' = released + 1
  /\ operation' = Null
  /\ completed' =
       Append(completed,
              [name |-> operation.name, size |-> Len(operation.list),
               statements |-> sent, failed |-> failed, thrown |-> thrown])

\* a repository method is called, up to its first await.  getByIds and
\* updateInventory return at once on an empty list; every other call asks the
\* pool for a client
RepositoryCall(name, list) ==
  /\ operation = Null
  /\ Len(completed) < MaxOperations
  /\ statements' = <<>>
  /\ IF name \in {"products.getByIds", "products.updateInventory"} /\ list = <<>>
     THEN /\ completed' =
               Append(completed,
                      [name |-> name, size |-> 0, statements |-> <<>>,
                       failed |-> "none", thrown |-> "none"])
          /\ UNCHANGED operation
     ELSE /\ operation' =
               [name |-> name, list |-> list, at |-> "connect", index |-> 0,
                before |-> stock, failed |-> "none"]
          /\ UNCHANGED completed
  /\ UNCHANGED <<stock, working, acquired, released>>

\* await this.pool.connect() settles.  It stands before the try: a rejection
\* leaves the method with no client acquired and nothing to release
PoolConnect ==
  /\ operation # Null
  /\ operation.at = "connect"
  /\ \/ /\ acquired' = acquired + 1
        /\ operation' =
             [operation EXCEPT
                !.at = CASE operation.name = "orders.getById" -> "SELECT orders"
                         [] operation.name = "customers.getById" -> "SELECT customers"
                         [] operation.name = "customers.updateTotalPurchases" ->
                              "UPDATE customers"
                         [] operation.name = "products.getByIds" -> "SELECT products"
                         [] operation.name = "products.updateInventory" -> "BEGIN"]
        /\ UNCHANGED completed
     \/ /\ operation' = Null
        /\ completed' =
             Append(completed,
                    [name |-> operation.name, size |-> Len(operation.list),
                     statements |-> <<>>, failed |-> "connect", thrown |-> "connect"])
        /\ UNCHANGED acquired
  /\ UNCHANGED <<stock, working, released, statements>>

\* await client.query(...) settles, and the method runs on to its next await
\* or to its end.  Stock changes of a transaction are seen by others at
\* COMMIT; a ROLLBACK ends the transaction, and one that is rejected has lost
\* its connection, whose transaction the server aborts
QuerySettles ==
  /\ operation # Null
  /\ operation.at # "connect"
  /\ \E ok \in BOOLEAN, found \in BOOLEAN :
       LET at == operation.at
           sent == Append(statements, at)
           i == operation.index
           Continue(next, index, failed) ==
             /\ operation' =
                  [operation EXCEPT !.at = next, !.index = index, !.failed = failed]
             /\ UNCHANGED <<released, completed>>
       IN /\ statements' = sent
          /\ IF operation.name # "products.updateInventory"
             THEN /\ UNCHANGED <<stock, working>>
                  /\ IF ~ok
                     THEN Finally(sent, at, at)
                     ELSE IF at = "SELECT orders" /\ found
                     THEN Continue("SELECT order_items", 0, "none")
                     ELSE Finally(sent, "none", "none")
             ELSE IF at = "ROLLBACK"
             THEN /\ working' = Null
                  /\ UNCHANGED stock
                  /\ Finally(sent, operation.failed, IF ok THEN operation.failed ELSE at)
             ELSE IF ~ok
             THEN /\ UNCHANGED <<stock, working>>
                  /\ Continue("ROLLBACK", i, at)
             ELSE IF at = "BEGIN"
             THEN /\ working' = stock
                  /\ UNCHANGED stock
                  /\ Continue("UPDATE products", 1, "none")
             ELSE IF at = "UPDATE products"
             THEN /\ working' =
                       [working EXCEPT
                          ![operation.list[i].productId] =
                             @ + operation.list[i].quantityChange]
                  /\ UNCHANGED stock
                  /\ IF i < Len(operation.list)
                     THEN Continue("UPDATE products", i + 1, "none")
                     ELSE Continue("COMMIT", i, "none")
             ELSE /\ stock' = working
                  /\ working' = Null
                  /\ Finally(sent, "none", "none")
  /\ UNCHANGED acquired

StoreNext ==
  \/ \E name \in {"orders.getById", "customers.getById", "customers.updateTotalPurchases"} :
       RepositoryCall(name, <<>>)
         /\ UNCHANGED <<vars, retryVars, cancelRequested, clientVars, computeVars,
                        factoryVars, connectVars>>
  \/ \E ids \in SeqsUpTo(ProductIds, MaxItems) :
       RepositoryCall("products.getByIds", ids)
         /\ UNCHANGED <<vars, retryVars, cancelRequested, clientVars, computeVars,
                        factoryVars, connectVars>>
  \/ \E its \in SeqsUpTo(OrderItems, MaxItems) :
       RepositoryCall("products.updateInventory", calculateInventoryUpdates(its))
         /\ UNCHANGED <<vars, retryVars, cancelRequested, clientVars, computeVars,
                        factoryVars, connectVars>>
  \/ PoolConnect /\ UNCHANGED <<vars, retryVars, cancelRequested, clientVars, computeVars,
                               factoryVars, connectVars>>
  \/ QuerySettles /\ UNCHANGED <<vars, retryVars, cancelRequested, clientVars,
                                computeVars, factoryVars, connectVars>>

\* the repositories of one pool, called one operation after the other
StoreSpec == ServicesInit /\ [][StoreNext]_allVars

\* ------------------------------------------ temporal/client getTemporalClient

\* most getTemporalClient calls followed
MaxGets == 4

\* getTemporalClient() is called, up to its first await: with a cached client
\* it returns it, without one it starts Connection.connect, whatever other
\* calls are doing
getTemporalClient ==
  /\ Len(getting) < MaxGets
  /\ getting' =
       Append(getting,
              IF client # Null
              THEN [at |-> "returned", client |-> client]
              ELSE [at |-> "connect"])
  /\ UNCHANGED <<client, connections>>

\* Connection.connect of call i resolves, the first client created being kept
ConnectResolves_keepsFirst(i) ==
  /\ getting[i].at = "connect"
  /\ connections' = connections + 1
  /\ client' = IF client = Null THEN [connection |-> connections'] ELSE client
  /\ getting' = [getting EXCEPT ![i] = [at |-> "returned", client |-> client']]

\* Connection.connect of call i resolves: a Client is created on the new
\* connection, assigned to the module variable and returned
ConnectResolves(i) ==
  /\ getting[i].at = "connect"
  /\ connections' = connections + 1
  /\ client' = [connection |-> connections']
  /\ getting' = [getting EXCEPT ![i] = [at |-> "returned", client |-> client']]

\* Connection.connect of call i rejects, and so does the call
ConnectRejects(i) ==
  /\ getting[i].at = "connect"
  /\ getting' = [getting EXCEPT ![i] = [at |-> "thrown"]]
  /\ UNCHANGED <<client, connections>>

ConnectNext ==
  \/ getTemporalClient
       /\ UNCHANGED <<vars, retryVars, cancelRequested, clientVars, computeVars,
                      factoryVars, storeVars>>
  \/ \E i \in 1..Len(getting) :
       ConnectResolves(i)
         /\ UNCHANGED <<vars, retryVars, cancelRequested, clientVars, computeVars,
                        factoryVars, storeVars>>
  \/ \E i \in 1..Len(getting) :
       ConnectRejects(i)
         /\ UNCHANGED <<vars, retryVars, cancelRequested, clientVars, computeVars,
                        factoryVars, storeVars>>

\* calls of getTemporalClient from any of the client functions, overlapping or not
ConnectSpec == ServicesInit /\ [][ConnectNext]_allVars

\* ------------------------------------------------------------------ claims

Inventory == "products.updateInventory"

Purchases == "customers.updateTotalPurchases"

InventoryCause == "Failed to update inventory: Error: Inventory service unavailable"

PurchasesCause == "Failed to update customer purchases: Error: Customer service down"

\* the list of causes a Failure carries: the one string of after/orderProcessor,
\* the NonEmptyList of pure/orderProcessing
Causes == IF coordinator = "after" THEN <<result.value>> ELSE result.value

\* C1: in the critical/optional coordinator an optional effect has been invoked
\* only if both critical effects have completed successfully; hence once a
\* critical effect has failed no optional effect is ever invoked.
C1_OptionalOnlyAfterCritical ==
  coordinator = "after" =>
    \A o \in OptionalEffects :
      eff[o] # "idle" => eff[Inventory] = "ok" /\ eff[Purchases] = "ok"

C1_Witness ==
  /\ coordinator = "after"
  /\ eff["notifications.sendEmail"] = "pending"
  /\ eff[Inventory] = "ok"
  /\ eff[Purchases] = "ok"

\* C2: when exactly one critical effect has failed, processOrder has returned a
\* Failure whose single cause names the failed effect.
C2_SingleCriticalFailure ==
  (coordinator = "after" /\ pc = "done") =>
    /\ (eff[Inventory] = "failed" /\ eff[Purchases] = "ok")
         => (result.tag = "Left" /\ result.value = InventoryCause)
    /\ (eff[Inventory] = "ok" /\ eff[Purchases] = "failed")
         => (result.tag = "Left" /\ result.value = PurchasesCause)

C2_Witness ==
  /\ coordinator = "after"
  /\ pc = "done"
  /\ eff[Inventory] = "ok"
  /\ eff[Purchases] = "failed"
  /\ result = Left(PurchasesCause)

\* C3: when both critical effects have failed, the Failure lists both causes,
\* the updateInventory cause first, then the updateTotalPurchases cause.
C3_AllCriticalFailuresListed ==
  (coordinator = "after" /\ pc = "done"
     /\ eff[Inventory] = "failed" /\ eff[Purchases] = "failed")
    => (result.tag = "Left" /\ Causes = <<InventoryCause, PurchasesCause>>)

\* C4: both critical effects are issued together: whenever one of them has been
\* invoked the other has been invoked too, whatever the outcome of either.
C4_BothCriticalIssued ==
  coordinator = "after" =>
    (eff[Inventory] # "idle" <=> eff[Purchases] # "idle")

C4_Witness ==
  /\ coordinator = "after"
  /\ eff[Inventory] = "failed"
  /\ eff[Purchases] = "ok"
  /\ pc = "awaitCritical"

\* C5: processOrder has returned Success only if both critical effects were
\* invoked and both completed successfully.
C5_SuccessOnlyAfterCritical ==
  (coordinator = "after" /\ result.tag = "Right") =>
    /\ eff[Inventory] = "ok"
    /\ eff[Purchases] = "ok"
    /\ \E i, j \in 1..Len(calls) :
         calls[i].effect = Inventory /\ calls[j].effect = Purchases

C5_Witness ==
  /\ coordinator = "after"
  /\ result.tag = "Right"
  /\ Len(result.value.itemsSummary) = 2

\* C6: once both critical effects have succeeded and processOrder has returned,
\* the result is Success carrying the computed ProcessedOrder, whichever optional
\* effects fail and whether or not their observer has run.
C6_OptionalFailuresInvisible ==
  (coordinator = "after" /\ pc = "done"
     /\ eff[Inventory] = "ok" /\ eff[Purchases] = "ok")
    => /\ result.tag = "Right"
       /\ result.value = toProcessedOrder(order, customer, lineItems, discountRule)

C6_Witness ==
  /\ coordinator = "after"
  /\ obs = "logged"
  /\ eff["notifications.sendEmail"] = "failed"
  /\ eff["cache.set"] = "failed"
  /\ eff["analytics.trackEvent"] = "ok"
  /\ result.tag = "Right"
  /\ result.value.subtotal = 10000
  /\ result.value.discount = 1000
  /\ result.value.total = 9000

\* C7: Success is produced without waiting for any optional effect: whenever an
\* optional effect has been invoked, settled or not, processOrder has already
\* returned Success.
C7_SuccessBeforeOptional ==
  coordinator = "after" =>
    \A o \in OptionalEffects :
      eff[o] # "idle" => (pc = "done" /\ result.tag = "Right")

C7_Witness ==
  /\ coordinator = "after"
  /\ result.tag = "Right"
  /\ Len(optionalEffects) = 4
  /\ \A i \in 1..Len(optionalEffects) : eff[optionalEffects[i]] = "pending"
  /\ obs = "waiting"

\* the line console.warn receives for a failed optional effect
WarningOf(e) ==
  CASE e = "cache.set" -> "Cache set failed: Error: Cache unavailable"
    [] e = "notifications.sendEmail" -> "Email send failed: Error: Email service down"
    [] e = "analytics.trackEvent" -> "Analytics tracking failed: Error: Service unavailable"
    [] e = "monitoring.sendAlerts" -> "Alert send failed: Error: Service unavailable"

FailedOptional == SelectSeq(optionalEffects, LAMBDA e : eff[e] = "failed")

ExpectedSink == [i \in 1..Len(FailedOptional) |-> WarningOf(FailedOptional[i])]

\* C8 as stated: once the observer has run, every dispatched optional effect,
\* succeeded or failed, has its outcome in the observability sink.
C8_EveryOutcomeDelivered ==
  obs = "logged" => Len(sink) = Len(optionalEffects)

\* C8 amended: nothing is written until every dispatched optional effect has
\* settled; once they all have, the observer eventually writes exactly the
\* causes of the failed ones, in dispatch order; the caller's result stays the
\* Success it was.
C8_FailuresDeliveredOnceAllSettled ==
  /\ [](obs # "logged" => sink = <<>>)
  /\ [](obs = "logged" =>
         /\ AllSettled(optionalEffects)
         /\ sink = ExpectedSink
         /\ result.tag = "Right")
  /\ ((obs = "waiting" /\ AllSettled(optionalEffects)) ~> (obs = "logged"))

C8_Witness ==
  /\ obs = "logged"
  /\ Len(optionalEffects) = 4
  /\ eff["cache.set"] = "ok"
  /\ eff["notifications.sendEmail"] = "failed"
  /\ eff["analytics.trackEvent"] = "ok"
  /\ eff["monitoring.sendAlerts"] = "failed"
  /\ sink = <<"Email send failed: Error: Email service down",
              "Alert send failed: Error: Service unavailable">>

\* C9: every terminated execution of processOrder has ended in Success or in a
\* Failure with a non-empty list of causes, never in a rejected promise.
C9_SuccessOrFailureOnly ==
  pc = "done" =>
    \/ result.tag = "Right"
    \/ (result.tag = "Left" /\ Len(Causes) > 0)

\* C10: when orders.getById has resolved absent, processOrder has ended with the
\* single cause 'Order <orderId> not found', and neither customers.getById nor
\* products.getByIds nor pricing.getDiscountRules has been invoked.
C10_OrderNotFound ==
  (pc = "done" /\ eff["orders.getById"] = "ok" /\ order = Null) =>
    /\ result.tag = "Left"
    /\ Causes = << IF orderId = "missing-order"
                   THEN "Order missing-order not found"
                   ELSE "Order order-123 not found" >>
    /\ eff["customers.getById"] = "idle"
    /\ eff["products.getByIds"] = "idle"
    /\ eff["pricing.getDiscountRules"] = "idle"

C10_Witness ==
  /\ pc = "done"
  /\ orderId = "missing-order"
  /\ eff["orders.getById"] = "ok"
  /\ result = Left("Order missing-order not found")

\* C11: when the order is found and customers.getById has resolved absent,
\* processOrder has ended with the single cause 'Customer <customerId> not found',
\* and neither products.getByIds nor pricing.getDiscountRules has been invoked.
C11_CustomerNotFound ==
  (pc = "done" /\ eff["customers.getById"] = "ok" /\ customer = Null) =>
    /\ order # Null
    /\ result.tag = "Left"
    /\ Causes = <<"Customer cust-456 not found">>
    /\ eff["products.getByIds"] = "idle"
    /\ eff["pricing.getDiscountRules"] = "idle"
    /\ \A i \in 1..Len(calls) :
         calls[i].effect \notin {"products.getByIds", "pricing.getDiscountRules"}

C11_Witness ==
  /\ pc = "done"
  /\ coordinator = "pure"
  /\ order # Null
  /\ order.customerId = "cust-456"
  /\ eff["customers.getById"] = "ok"
  /\ customer = Null
  /\ result.tag = "Left"

\* processOrder has ended in a not-found Failure: the order or the customer was absent
NotFoundFailure ==
  /\ pc = "done"
  /\ result.tag = "Left"
  /\ \/ eff["orders.getById"] = "ok" /\ order = Null
     \/ eff["customers.getById"] = "ok" /\ customer = Null

\* C12: in an execution that has ended in a not-found Failure no write effect
\* (updateInventory, updateTotalPurchases, cache.set, sendEmail, trackEvent,
\* sendAlerts) has been invoked at any point.
C12_NoWriteOnNotFound ==
  NotFoundFailure =>
    /\ \A w \in WriteEffects : eff[w] = "idle"
    /\ \A i \in 1..Len(calls) : calls[i].effect \notin WriteEffects

C12_Witness ==
  /\ NotFoundFailure
  /\ orderId = "order-123"
  /\ order = Null
  /\ Len(calls) = 1

ParallelReads == {"products.getByIds", "pricing.getDiscountRules"}

\* C13: products.getByIds and pricing.getDiscountRules are issued together, before
\* processOrder suspends on either (one is never outstanding without the other
\* having been issued), and no write effect has started, nor has processOrder
\* moved past the join, unless both reads have completed.
C13_ReadsJoinedBeforeWrites ==
  /\ eff["products.getByIds"] = "idle" <=> eff["pricing.getDiscountRules"] = "idle"
  /\ pc = "awaitReads" => \A r \in ParallelReads : eff[r] # "idle"
  /\ \A w \in WriteEffects :
       eff[w] # "idle" => \A r \in ParallelReads : eff[r] = "ok"
  /\ pc \in {"awaitCritical", "awaitEffects"} => \A r \in ParallelReads : eff[r] = "ok"
  /\ \A i, j \in 1..Len(calls) :
       (calls[i].effect \in WriteEffects /\ calls[j].effect \in ParallelReads) => j < i

\* both reads are out, and the one issued second has completed first
C13_Witness ==
  /\ pc = "awaitReads"
  /\ Len(calls) = 4
  /\ calls[3].effect = "products.getByIds"
  /\ calls[4].effect = "pricing.getDiscountRules"
  /\ eff["pricing.getDiscountRules"] = "ok"
  /\ eff["products.getByIds"] = "pending"

\* C14: an activity is attempted at most its policy's maximum number of times (9
\* for the store activities, 10 for the pricing, cache and default ones); the
\* invocation fails only after the last allowed attempt has failed, surfacing that
\* attempt's failure; a new attempt starts only after the one before has failed,
\* never after a success.
C14_AttemptsBounded ==
  /\ [](LET budget == IF activity \in DatabaseActivities THEN 9 ELSE 10
        IN /\ attempt <= budget
           /\ phase = "backoff" => attempt < budget
           /\ phase = "failed" => attempt = budget /\ lastFailure.attempt = budget)
  /\ [][attempt' # attempt =>
          /\ attempt' = attempt + 1
          /\ phase = "backoff"
          /\ lastFailure.attempt = attempt
          /\ lastFailure.kind \in FailureKinds]_allVars
  /\ [][phase = "completed" => phase' = "completed" /\ attempt' = attempt]_allVars

C14_Witness ==
  /\ activity = "updateInventory"
  /\ phase = "failed"
  /\ attempt = 9
  /\ lastFailure = [attempt |-> 9, kind |-> "error"]

\* C15: the sleeps of an invocation are min(currentInterval, maximumInterval) with
\* currentInterval starting at initialInterval and doubling after every failure:
\* a prefix of the sequence below for the policy; no sleep exceeds the policy's
\* maximum interval (1600, 3000, 10000, 30000 ms) and the sleeps never decrease.
C15_BackoffCapped ==
  LET ceiling == CASE activity \in DatabaseActivities -> 1600
                   [] activity \in ApiActivities -> 3000
                   [] activity \in CacheActivities -> 10000
                   [] OTHER -> 30000
      expected == CASE activity \in DatabaseActivities ->
                         <<500, 1000, 1600, 1600, 1600, 1600, 1600, 1600>>
                    [] activity \in ApiActivities ->
                         <<500, 1000, 2000, 3000, 3000, 3000, 3000, 3000, 3000>>
                    [] activity \in CacheActivities ->
                         <<250, 500, 1000, 2000, 4000, 8000, 10000, 10000, 10000>>
                    [] OTHER ->
                         <<1000, 2000, 4000, 8000, 16000, 30000, 30000, 30000, 30000>>
  IN activity \in Activities =>
       /\ Len(sleeps) <= Len(expected)
       /\ \A i \in 1..Len(sleeps) :
            /\ sleeps[i] = expected[i]
            /\ sleeps[i] <= ceiling
            /\ i > 1 => sleeps[i - 1] <= sleeps[i]
       /\ phase = "backoff" => Len(sleeps) = attempt

\* a store activity has backed off four times: twice below the ceiling, twice at it
C15_Witness ==
  /\ activity = "getOrderById"
  /\ phase = "backoff"
  /\ sleeps = <<500, 1000, 1600, 1600>>

\* C16: every activity invocation eventually ends: completed, failed with its
\* last failure, or cancelled; also when every attempt fails.
C16_InvocationTerminates == <>(phase \in {"completed", "failed", "cancelled"})

\* the pricing service failed every one of the ten attempts
C16_Witness ==
  /\ activity = "getDiscountRules"
  /\ phase = "failed"
  /\ attempt = 10
  /\ Len(sleeps) = 9
  /\ lastFailure.attempt = 10

C19_PureSuccessResult ==
  (/\ coordinator = "pure"
   /\ pc = "done"
   /\ \A e \in Effects : eff[e] \in {"idle", "ok"}
   /\ order # Null
   /\ customer # Null) =>
    /\ result.tag = "Right"
    /\ LET matched == SelectSeq(order.items, LAMBDA it : it.productId \in DOMAIN products)
           lineTotal(i) == matched[i].quantity * matched[i].pricePerUnit
           RECURSIVE sum(_)
           sum(n) == IF n = 0 THEN 0 ELSE lineTotal(n) + sum(n - 1)
           subtotal == sum(Len(matched))
           applicable == {i \in 1..Len(discountRules) :
                            /\ discountRules[i].tier = customer.tier
                            /\ discountRules[i].minPurchase <= subtotal}
           percent == IF applicable = {} THEN 0
                      ELSE discountRules[CHOOSE i \in applicable :
                                           \A j \in applicable : i <= j].discountPercent
           processed == result.value
       IN /\ processed.orderId = orderId
          /\ processed.customerId = customer.id
          /\ processed.subtotal = subtotal * 100
          /\ processed.discount = subtotal * percent
          /\ processed.total = processed.subtotal - processed.discount
          /\ Len(processed.itemsSummary) = Len(matched)
          /\ \A i \in 1..Len(matched) :
               /\ processed.itemsSummary[i].productId = matched[i].productId
               /\ processed.itemsSummary[i].quantity = matched[i].quantity
               /\ processed.itemsSummary[i].lineTotal = lineTotal(i)

\* C20: for every order at most one run of workflow 'order-<orderId>' is ever
\* started: the request that started it was answered 202 with that workflow id,
\* and no later request for the same order is answered 202.
C20_NeverProcessedTwice ==
  /\ \A id \in WorkflowIds : Len(executions[id]) <= 1
  /\ \A i \in 1..Len(responses) :
       responses[i].status = 202 => responses[i].workflowId = WorkflowIdOf(responses[i].orderId)
  /\ \A i, j \in 1..Len(responses) :
       (/\ i < j
        /\ responses[i].orderId = responses[j].orderId
        /\ responses[i].status = 202) => responses[j].status # 202

\* the invocations of effect e so far
CallsOf(e) == SelectSeq(calls, LAMBDA c : c.effect = e)

\* the lines of order o whose product the product map p holds, in line order
MatchedOf(o, p) == SelectSeq(o.items, LAMBDA it : it.productId \in DOMAIN p)

\* the product ids of the lines of order o that the product map p lacks, in line order
MissingOf(o, p) ==
  LET ids == [i \in 1..Len(o.items) |-> o.items[i].productId]
  IN SelectSeq(ids, LAMBDA id : id \notin DOMAIN p)

\* the sum of quantity * pricePerUnit over the matched lines, in hundredths
SubtotalOf(o, p) ==
  LET RECURSIVE sum(_)
      sum(n) == IF n = 0 THEN 0
                ELSE MatchedOf(o, p)[n].quantity * MatchedOf(o, p)[n].pricePerUnit + sum(n - 1)
  IN sum(Len(MatchedOf(o, p))) * 100

\* the positions in the rule list of the rules of the tier whose threshold the
\* subtotal (in hundredths) reaches
ApplicableOf(rules, tier, subtotal) ==
  {i \in 1..Len(rules) : rules[i].tier = tier /\ rules[i].minPurchase * 100 <= subtotal}

\* C21: monitoring.sendAlerts is invoked at most once, and only after both critical
\* effects succeeded for an order with a missing product, with one missing_product
\* alert per missing product id in line order; once processOrder has ended after
\* both critical effects succeeded for such an order, the alerts have been sent and
\* the result is Success.  Without a missing product sendAlerts is never invoked.
C21_AlertsForMissingProducts ==
  LET alertCalls == CallsOf("monitoring.sendAlerts")
      criticalDone == eff[Inventory] = "ok" /\ eff[Purchases] = "ok"
  IN /\ Len(alertCalls) <= 1
     /\ Len(alertCalls) = 1 =>
          /\ criticalDone
          /\ Len(MissingOf(order, products)) > 0
          /\ alertCalls[1].args =
               [i \in 1..Len(MissingOf(order, products)) |->
                  [type |-> "missing_product",
                   productId |-> MissingOf(order, products)[i],
                   orderId |-> orderId]]
     /\ (pc = "done" /\ criticalDone /\ Len(MissingOf(order, products)) > 0) =>
          /\ Len(alertCalls) = 1
          /\ result.tag = "Right"

\* both lines of the order miss their product: one call with two alerts, prod-1
\* before prod-2, and Success
C21_Witness ==
  /\ pc = "done"
  /\ result.tag = "Right"
  /\ Len(CallsOf("monitoring.sendAlerts")) = 1
  /\ Len(CallsOf("monitoring.sendAlerts")[1].args) = 2
  /\ CallsOf("monitoring.sendAlerts")[1].args[1].productId = "prod-1"
  /\ CallsOf("monitoring.sendAlerts")[1].args[2].productId = "prod-2"

\* C27: every invocation of products.updateInventory carries exactly one delta per
\* matched line of the order, in line order, with quantityChange = -quantity of
\* that line; a line whose product is missing has no delta.
C27_InventoryDeltas ==
  \A k \in 1..Len(CallsOf(Inventory)) :
    LET deltas == CallsOf(Inventory)[k].args
    IN /\ Len(deltas) = Len(MatchedOf(order, products))
       /\ \A i \in 1..Len(deltas) :
            /\ deltas[i].productId = MatchedOf(order, products)[i].productId
            /\ deltas[i].quantityChange = 0 - MatchedOf(order, products)[i].quantity
       /\ \A i \in 1..Len(MissingOf(order, products)) :
            \A j \in 1..Len(deltas) : deltas[j].productId # MissingOf(order, products)[i]

\* an order of two lines, prod-2 (quantity 1) then prod-1 (quantity 2), with prod-2
\* missing from the product map: one delta, -2 on prod-1
C27_Witness ==
  /\ Len(CallsOf(Inventory)) = 1
  /\ Len(order.items) = 2
  /\ order.items[1].productId = "prod-2"
  /\ MissingOf(order, products) = <<"prod-2">>
  /\ CallsOf(Inventory)[1].args = <<[productId |-> "prod-1", quantityChange |-> 0 - 2]>>

\* C28: customers.updateTotalPurchases is never invoked twice, and once the
\* critical stage has been reached it has been invoked exactly once, with the id
\* of the fetched customer and the total of the processed order, subtotal - discount.
C28_PurchasesOnceWithTotal ==
  /\ Len(CallsOf(Purchases)) <= 1
  /\ eff[Inventory] # "idle" =>
       /\ Len(CallsOf(Purchases)) = 1
       /\ LET subtotal == SubtotalOf(order, products)
              applicable == ApplicableOf(discountRules, customer.tier, subtotal)
              discount == IF applicable = {} THEN 0
                          ELSE (subtotal * discountRules[First(applicable)].discountPercent) \div 100
          IN CallsOf(Purchases)[1].args = <<customer.id, subtotal - discount>>

\* premium customer, both lines matched: subtotal 100, 10% off, 90 added to the
\* purchases of cust-456
C28_Witness ==
  /\ CallsOf(Purchases) =
       <<[effect |-> Purchases, args |-> <<"cust-456", 9000>>]>>
  /\ customer.tier = "premium"
  /\ SubtotalOf(order, products) = 10000
  /\ discountRules[1].discountPercent = 10
  /\ eff[Purchases] = "ok"

\* the results of the calls of the computation on the given arguments
Computed ==
  IF given.fn = "computation"
  THEN [k \in 1..Len(returned) |-> returned[k].value]
  ELSE <<>>

\* C22: every ProcessedOrder the computation produced, for whatever order, tier,
\* product map and fetched rule list, has total = subtotal - discount and
\* 0 <= discount <= subtotal.
C22_ProcessedOrderInvariant ==
  \A k \in 1..Len(Computed) :
    LET processed == Computed[k].processedOrder
    IN /\ processed.total = processed.subtotal - processed.discount
       /\ processed.discount >= 0
       /\ processed.discount <= processed.subtotal

\* C23: the rule findApplicableDiscount returned is the first rule of the fetched
\* list, in list order, that has the customer's tier and a minPurchase <= subtotal,
\* whatever matches after it; when no rule matches it returned none, the discount
\* is 0 and the total is the subtotal.
C23_FirstApplicableRule ==
  \A k \in 1..Len(Computed) :
    LET applicable == ApplicableOf(given.discountRules, given.customer.tier,
                                   SubtotalOf(given.order, given.products))
    IN IF applicable = {}
       THEN /\ Computed[k].discountRule = Null
            /\ Computed[k].processedOrder.discount = 0
            /\ Computed[k].processedOrder.total = Computed[k].processedOrder.subtotal
       ELSE Computed[k].discountRule = given.discountRules[First(applicable)]

\* premium customer, subtotal 100, rules premium 50 -> 10% and premium 100 -> 20%:
\* both match, the first is returned
C23_Witness ==
  /\ Len(Computed) > 0
  /\ given.customer.tier = "premium"
  /\ SubtotalOf(given.order, given.products) = 10000
  /\ ApplicableOf(given.discountRules, given.customer.tier, 10000) = {1, 2}
  /\ Computed[1].discountRule = [tier |-> "premium", minPurchase |-> 50, discountPercent |-> 10]

\* C24: calculateLineItems splits the order's lines in order: the lines whose
\* product is in the map give one line item each, with lineTotal = quantity *
\* pricePerUnit, the ids of the others are the missingProductIds, in the order
\* found, and count for nothing in the subtotal; line items and missing ids
\* together are as many as the order's lines.
C24_LineItemsPartition ==
  \A k \in 1..Len(Computed) :
    LET items == Computed[k].lineItems
        missing == Computed[k].missingProductIds
        matched == MatchedOf(given.order, given.products)
    IN /\ Len(items) = Len(matched)
       /\ \A i \in 1..Len(items) :
            /\ items[i].productId = matched[i].productId
            /\ items[i].quantity = matched[i].quantity
            /\ items[i].pricePerUnit = matched[i].pricePerUnit
            /\ items[i].lineTotal = matched[i].quantity * matched[i].pricePerUnit
       /\ missing = MissingOf(given.order, given.products)
       /\ Len(items) + Len(missing) = Len(given.order.items)
       /\ Computed[k].processedOrder.subtotal = SubtotalOf(given.order, given.products)

\* an order of prod-2 then prod-1 against a map that holds prod-1 only: one line
\* item of 2 * 25, prod-2 missing, subtotal 50
C24_Witness ==
  /\ Len(Computed) > 0
  /\ Len(given.order.items) = 2
  /\ given.order.items[1].productId = "prod-2"
  /\ Len(Computed[1].lineItems) = 1
  /\ Computed[1].lineItems[1].lineTotal = 50
  /\ Computed[1].missingProductIds = <<"prod-2">>
  /\ Computed[1].processedOrder.subtotal = 5000

\* the results of the calls of calculateLoyaltyPoints on the given arguments
Points ==
  IF given.fn = "calculateLoyaltyPoints"
  THEN [k \in 1..Len(returned) |-> returned[k].value]
  ELSE <<>>

\* the greatest integer n with n * d <= x, for d > 0
Floor(x, d) == CHOOSE n \in (0 - 1)..x : n * d <= x /\ (n + 1) * d > x

\* C25: for every total >= 0, calculateLoyaltyPoints(total, tier) is basePoints =
\* floor(total / 10) for standard, floor(basePoints * 1.5) for premium and
\* basePoints * 2 for vip.
C25_LoyaltyPoints ==
  \A k \in 1..Len(Points) :
    LET basePoints == Floor(given.total, 1000)
    IN Points[k] = CASE given.tier = "standard" -> basePoints
                     [] given.tier = "premium" -> Floor(basePoints * 15, 10)
                     [] given.tier = "vip" -> basePoints * 2

\* total 55, premium: basePoints 5, floor(7.5) = 7
C25_Witness ==
  /\ given.fn = "calculateLoyaltyPoints"
  /\ given.total = 5500
  /\ given.tier = "premium"
  /\ Points = <<7>>

\* C26: for every total >= 0 the points are monotone in the tier: what standard
\* earns is at most what premium earns, which is at most what vip earns.
C26_PointsMonotoneInTier ==
  \A k \in 1..Len(Points) :
    /\ given.tier = "standard" =>
         Points[k] <= calculateLoyaltyPoints(given.total, "premium")
    /\ given.tier = "premium" =>
         /\ calculateLoyaltyPoints(given.total, "standard") <= Points[k]
         /\ Points[k] <= calculateLoyaltyPoints(given.total, "vip")
    /\ given.tier = "vip" =>
         calculateLoyaltyPoints(given.total, "premium") <= Points[k]

\* total 30: 3 for standard, 4 for premium, 6 for vip
C26_Witness ==
  /\ given.fn = "calculateLoyaltyPoints"
  /\ given.total = 3000
  /\ given.tier = "premium"
  /\ Points = <<4>>
  /\ calculateLoyaltyPoints(3000, "standard") = 3
  /\ calculateLoyaltyPoints(3000, "vip") = 6

C30_OwnGroupPolicy ==
  /\ \A e \in Effects : ActivityOf(e) \in Activities
  /\ \A e \in Effects :
       ActivityOf(e) = activity =>
         LET policy ==
               CASE e \in {"orders.getById", "customers.getById",
                           "customers.updateTotalPurchases", "products.getByIds",
                           "products.updateInventory"} -> databaseActivityOptions
                 [] e = "pricing.getDiscountRules" -> apiActivityOptions
                 [] e = "cache.set" -> cacheActivityOptions
                 [] e \in {"notifications.sendEmail", "monitoring.sendAlerts",
                           "analytics.trackEvent"} -> defaultActivityOptions
         IN /\ attempt <= policy.maximumAttempts
            /\ \A i \in 1..Len(sleeps) :
                 sleeps[i] = Min(policy.initialInterval * policy.backoffCoefficient ^ (i - 1),
                                 policy.maximumInterval)
            /\ phase = "failed" => attempt = policy.maximumAttempts

\* getDiscountRules has given up after the tenth attempt, its sleeps capped at 3 s
C30_Witness ==
  /\ activity = ActivityOf("pricing.getDiscountRules")
  /\ phase = "failed"
  /\ attempt = apiActivityOptions.maximumAttempts
  /\ sleeps[1] = 500
  /\ sleeps[3] = 2000
  /\ sleeps[4] = 3000

C32_NoCompensation ==
  (/\ pc = "done"
   /\ {eff[Inventory], eff[Purchases]} = {"ok", "failed"}) =>
    /\ result.tag = "Left"
    /\ Len(CallsOf(Inventory)) = 1
    /\ Len(CallsOf(Purchases)) = 1
    /\ calls[Len(calls) - 1].effect = Inventory
    /\ calls[Len(calls)].effect = Purchases
    /\ \A i \in 1..Len(CallsOf(Inventory)[1].args) :
         CallsOf(Inventory)[1].args[i].quantityChange < 0
    /\ \A e \in OptionalEffects : eff[e] = "idle"

\* the inventory was decremented for both lines, the purchases update failed: a
\* Failure, with the decrement in place
C32_Witness ==
  /\ pc = "done"
  /\ eff[Inventory] = "ok"
  /\ eff[Purchases] = "failed"
  /\ result.tag = "Left"
  /\ result.value = PurchasesCause
  /\ Len(CallsOf(Inventory)) = 1
  /\ Len(CallsOf(Inventory)[1].args) = 2

\* C33: an access made before initialize() was ever called throws 'Database
\* pool not initialized. Call initialize() first.' for orders, customers and
\* products and 'Redis client not initialized. Call initialize() first.' for
\* cache; an access made after an initialize() that completed successfully
\* throws for none of the eight getters and gives the instance the getter
\* gave before, which a getter never replaces.
C33_GettersNeedInitialize ==
  [][/\ \A g \in DOMAIN _services : _services[g] # Null => _services'[g] = _services[g]
     /\ Len(accesses') > Len(accesses) =>
          LET a == accesses'[Len(accesses')]
              Threw == "thrown" \in DOMAIN a
          IN /\ (initialized = <<>> /\ initializing = "no") =>
                  /\ a.getter \in {"orders", "customers", "products"} =>
                       /\ Threw
                       /\ a.thrown = "Database pool not initialized. Call initialize() first."
                  /\ a.getter = "cache" =>
                       /\ Threw
                       /\ a.thrown = "Redis client not initialized. Call initialize() first."
             /\ (\E k \in 1..Len(initialized) : initialized[k] = "initialized") =>
                  /\ ~Threw
                  /\ _services[a.getter] # Null => a.service = _services[a.getter]
                  /\ \A j \in 1..Len(accesses) :
                       (accesses[j].getter = a.getter /\ "service" \in DOMAIN accesses[j]) =>
                         accesses[j].service = a.service]_allVars

C33_Witness ==
  /\ initialized = <<"initialized">>
  /\ Len(accesses) = 3
  /\ \A i \in 1..3 : accesses[i].getter = "cache"
  /\ "thrown" \in DOMAIN accesses[1]
  /\ "service" \in DOMAIN accesses[2]
  /\ accesses[3] = accesses[2]

\* C34: getPool and getRedisClient store the handle before the connection is
\* tried.  While the test connection is awaited, and after initialize() failed
\* at it, the pool field is set, so orders, customers and products do not
\* throw 'not initialized', and no initialize() tests the pool a second time;
\* the same for the Redis client, the cache getter and connect().
C34_StoredBeforeVerified ==
  LET Failed(what) == \E k \in 1..Len(initialized) : initialized[k] = what
      Tries(what) == Cardinality({k \in 1..Len(connects) : connects[k] = what})
  IN /\ (initializing = "pool.connect" \/ Failed("postgres failed")) =>
          /\ _pool # Null
          /\ \A g \in {"orders", "customers", "products"} : NotInitialized(g) = Null
     /\ (initializing = "redis.connect" \/ Failed("redis failed")) =>
          /\ _redisClient # Null
          /\ NotInitialized("cache") = Null
     /\ Tries("postgres") <= 1
     /\ Tries("redis") <= 1

C34_Witness ==
  /\ initialized = <<"postgres failed", "redis failed", "initialized">>
  /\ connects = <<"postgres", "redis">>
  /\ \E i \in 1..Len(accesses) :
       accesses[i].getter = "orders" /\ "service" \in DOMAIN accesses[i]

\* C35: products.updateInventory is all-or-nothing.  On an empty list it
\* asks the pool for nothing and sends no statement; when BEGIN, every UPDATE
\* and COMMIT succeed the stock has moved by every delta of the list; when
\* one of them fails a ROLLBACK is sent, the stock is what it was before the
\* call, and the caller gets the error of the statement that failed.
C35_AllOrNothing ==
  [][Len(completed') > Len(completed) =>
       LET c == completed'[Len(completed')]
           RECURSIVE DeltaOf(_, _)
           DeltaOf(list, p) ==
             IF list = <<>>
             THEN 0
             ELSE (IF Head(list).productId = p THEN Head(list).quantityChange ELSE 0)
                    + DeltaOf(Tail(list), p)
       IN c.name = "products.updateInventory" =>
            /\ c.size = 0 =>
                 /\ c.statements = <<>>
                 /\ c.failed = "none"
                 /\ c.thrown = "none"
                 /\ stock' = stock
                 /\ acquired' = acquired
            /\ (c.size > 0 /\ c.failed = "none") =>
                 /\ c.thrown = "none"
                 /\ c.statements =
                      <<"BEGIN">> \o [i \in 1..c.size |-> "UPDATE products"] \o <<"COMMIT">>
                 /\ \A p \in ProductIds :
                      stock'[p] = operation.before[p] + DeltaOf(operation.list, p)
            /\ c.failed # "none" =>
                 /\ stock' = operation.before
                 /\ c.thrown = c.failed
                 /\ c.failed # "connect" =>
                      c.statements[Len(c.statements)] = "ROLLBACK"]_allVars

\* C36: every repository operation releases the client it acquired exactly
\* once, whatever path it takes: a client is checked out exactly while an
\* operation is between its pool.connect() and its end, so with no operation
\* in progress none is checked out.
C36_ClientsReleased ==
  /\ released <= acquired
  /\ acquired - released = (IF operation # Null /\ operation.at # "connect" THEN 1 ELSE 0)
  /\ operation = Null => working = Null

C36_Witness ==
  /\ operation = Null
  /\ Len(completed) = 2
  /\ completed[1].name = "orders.getById"
  /\ completed[1].statements = <<"SELECT orders">>
  /\ completed[1].thrown = "none"
  /\ completed[2].name = "products.updateInventory"
  /\ completed[2].failed = "COMMIT"
  /\ completed[2].statements[Len(completed[2].statements)] = "ROLLBACK"
  /\ acquired = 2
  /\ released = 2

C38_CachedAfterConnect ==
  [][/\ client' = Null <=> connections' = 0
     /\ client' # client => connections' = connections + 1
     /\ Len(getting') > Len(getting) =>
          LET c == getting'[Len(getting')]
          IN /\ connections' = connections
             /\ IF client # Null
                THEN c = [at |-> "returned", client |-> client]
                ELSE c = [at |-> "connect"]
     /\ connections' > connections =>
          /\ client' = [connection |-> connections']
          /\ \E i \in 1..Len(getting) :
               /\ getting[i] = [at |-> "connect"]
               /\ getting' = [getting EXCEPT ![i] = [at |-> "returned", client |-> client']]]_allVars

C38_Witness ==
  /\ connections = 2
  /\ client = [connection |-> 2]
  /\ getting =
       <<[at |-> "returned", client |-> [connection |-> 1]],
         [at |-> "returned", client |-> [connection |-> 2]],
         [at |-> "returned", client |-> [connection |-> 2]]>>

====
